---- MODULE Spec2Model ----
(***************************************************************************)
(* Verification development of the github-star-gate plugin: the star      *)
(* verifier (verification.ts) and the verification cache (cache.ts).       *)
(*                                                                         *)
(* Time is the value of Date.getTime(), in milliseconds.  Strings built    *)
(* from template literals are sequences of their parts.  Date | null       *)
(* fields hold Null when they are null.  A promise of the persistence      *)
(* adapter always resolves; the remote API may answer any status or fail.  *)
(***************************************************************************)
EXTENDS Integers, Sequences, FiniteSets, TLC

VARIABLES now, ticks, options, store, nextRecordId,
          pendingVerifications, lookups, calls, sets, access,
          requests, graceEnd, construction

vars == <<now, ticks, options, store, nextRecordId,
          pendingVerifications, lookups, calls, sets, access,
          requests, graceEnd, construction>>

----------------------------------------------------------------------------
(* Bounds of the model *)

MaxTicks == 2
MaxCalls == 2
MaxSets == 3
MaxRaces == 2
MaxLen == 5
MaxLogins == 2
MaxElapses == 3
MaxRequests == 3
MaxTimedLogins == 4
MaxTimedRequests == 5

(* Advances of the clock: the scale of a backoff wait and of the cache lifetime *)
TickSteps == {1000, 60000}

UserIds == {"u1", "u2"}

(* Statuses the remote API answers with, and errors fetch rejects with *)
Statuses == {200, 204, 401, 403, 404, 429, 500}
NetworkErrors == {<<"Network error">>, <<"Connection refused">>}

(* The inputs of the specification of concurrent calls *)
SomeStatuses == {204, 401, 500}
SomeErrors == {<<"Network error">>}
SomeSteps == {60000}
(* long enough for a record cached for a minute to expire *)
LongSteps == {61000}
OneUser == {"u1"}

(* options.onApiFailure: "allow" | "deny" | not configured *)
Unset == "unset"
OnApiFailureValues == {"allow", "deny", Unset}

(* options.cacheDuration, in minutes; NotGiven when the option is left out *)
NotGiven == -1
CacheDurations == {1, NotGiven}
SomeCacheDurations == {1}

(* options.gracePeriod: its strategy ("sometimes" is none of the strategies
   the verifier knows, Unset is gracePeriod left out) and its duration in
   seconds *)
Strategies == {"immediate", "timed", "never", "sometimes", Unset}
GraceDurations == {60, NotGiven}
GracePeriods ==
  {g \in [strategy : Strategies, duration : GraceDurations] :
     g.strategy = Unset => g.duration = NotGiven}
NoGracePeriod == [strategy |-> Unset, duration |-> NotGiven]

----------------------------------------------------------------------------
(* Values *)

Null == -1
Undefined == 0
NoError == << >>

repoKey == <<"owner", "/", "repo">>

StatusText(status) ==
  CASE status = 200 -> "200"
    [] status = 204 -> "204"
    [] status = 401 -> "401"
    [] status = 403 -> "403"
    [] status = 404 -> "404"
    [] status = 429 -> "429"
    [] status = 500 -> "500"
    [] OTHER -> "?"

Contains(message, part) == \E i \in DOMAIN message : message[i] = part

(* A VerificationResult; error and requiresReauth absent are NoError and FALSE *)
Result(hasStarred, cached, error, requiresReauth) ==
  [hasStarred |-> hasStarred, cached |-> cached, error |-> error,
   requiresReauth |-> requiresReauth]

NoResult == Result(FALSE, FALSE, NoError, FALSE)

(* How a promise stands *)
Unsettled == "pending"
Resolved == "resolved"
Rejected == "rejected"

----------------------------------------------------------------------------
(* The pendingVerifications map *)

(* the key is built from the repository alone *)
CoalescingKeyOfRepository(userId) == <<":">> \o repoKey

CoalescingKey(userId) == <<userId, ":">> \o repoKey

(* the lookup of the key never finds the pending promise *)
MapGetMiss(map, key) == Undefined

MapGet(map, key) == IF key \in DOMAIN map THEN map[key] ELSE Undefined

(* the promise is not put into the map *)
MapSetDropped(map, key, value) == map

MapSet(map, key, value) ==
  [k \in DOMAIN map \cup {key} |-> IF k = key THEN value ELSE map[k]]

(* the finally block leaves the entry in the map *)
MapDeleteNothing(map, key) == map

MapDelete(map, key) == [k \in DOMAIN map \ {key} |-> map[k]]

----------------------------------------------------------------------------
(* StarVerificationCache *)

DefaultCacheDuration == 15

(* the duration the plugin constructs the cache with *)
CacheDurationMinutes ==
  IF options.cacheDuration = NotGiven THEN DefaultCacheDuration
  ELSE options.cacheDuration

CacheDurationMs == CacheDurationMinutes * 60 * 1000

(* a date handed to set by its caller, none of the readings of the clock *)
SuppliedGrantDate == 500
Overrides == {Null, SuppliedGrantDate}

(* adapter.findOne on (userId, repository): the values it may return, each
   the empty set (null) or the set of one matching record *)
FindOne(userId, repository) ==
  LET matching == {r \in store : r.userId = userId /\ r.repository = repository}
  IN IF matching = {} THEN {{}} ELSE {{r} : r \in matching}

(* the comparison is the wrong way round: a fresh record is reported absent *)
CacheGetInverted(found) == {r \in found : ~(r.expiresAt > now)}

(* the expiry is not looked at *)
CacheGetNoExpiry(found) == found

(* a record is reported absent from the instant of its expiresAt on *)
CacheGetStrict(found) == {r \in found : now < r.expiresAt}

(* cache.get after findOne returned found: null when the record has expired *)
CacheGet(found) == {r \in found : ~(r.expiresAt < now)}

(* a set without a star clears the grant date *)
AccessGrantedAtCleared(hasStarred, existingAccessGrantedAt, existing, setNow) ==
  IF hasStarred
    THEN IF existingAccessGrantedAt # Null THEN existingAccessGrantedAt
         ELSE IF existing # {} /\ (CHOOSE r \in existing : TRUE).accessGrantedAt # Null
                THEN (CHOOSE r \in existing : TRUE).accessGrantedAt
                ELSE setNow
    ELSE Null

(* cache.set, the grant date it stores on an existing record *)
AccessGrantedAt(hasStarred, existingAccessGrantedAt, existing, setNow) ==
  IF hasStarred
    THEN IF existingAccessGrantedAt # Null THEN existingAccessGrantedAt
         ELSE IF existing # {} /\ (CHOOSE r \in existing : TRUE).accessGrantedAt # Null
                THEN (CHOOSE r \in existing : TRUE).accessGrantedAt
                ELSE setNow
    ELSE IF existing # {} /\ (CHOOSE r \in existing : TRUE).accessGrantedAt # Null
           THEN (CHOOSE r \in existing : TRUE).accessGrantedAt
           ELSE Null

(* the update resets the grace period of the record *)
SetUpdateResetsGrace(records, existing, hasStarred, existingAccessGrantedAt, setNow) ==
  {IF r.id = (CHOOSE e \in existing : TRUE).id
     THEN [r EXCEPT !.hasStarred = hasStarred,
                    !.lastCheckedAt = setNow,
                    !.expiresAt = setNow + CacheDurationMs,
                    !.accessGrantedAt =
                       AccessGrantedAt(hasStarred, existingAccessGrantedAt,
                                       existing, setNow),
                    !.gracePeriodEndsAt = Null]
     ELSE r : r \in records}

(* the update leaves hasStarred as it was *)
SetUpdateKeepsStar(records, existing, hasStarred, existingAccessGrantedAt, setNow) ==
  {IF r.id = (CHOOSE e \in existing : TRUE).id
     THEN [r EXCEPT !.lastCheckedAt = setNow,
                    !.expiresAt = setNow + CacheDurationMs]
     ELSE r : r \in records}

(* cache.set, the adapter.update branch *)
SetUpdate(records, existing, hasStarred, existingAccessGrantedAt, setNow) ==
  {IF r.id = (CHOOSE e \in existing : TRUE).id
     THEN [r EXCEPT !.hasStarred = hasStarred,
                    !.lastCheckedAt = setNow,
                    !.expiresAt = setNow + CacheDurationMs,
                    !.accessGrantedAt =
                       AccessGrantedAt(hasStarred, existingAccessGrantedAt,
                                       existing, setNow)]
     ELSE r : r \in records}

(* cache.set, the adapter.create branch *)
SetCreate(records, id, userId, repository, hasStarred, setNow) ==
  records \cup
  {[id |-> id, userId |-> userId, repository |-> repository,
    hasStarred |-> hasStarred, lastCheckedAt |-> setNow,
    expiresAt |-> setNow + CacheDurationMs, createdAt |-> setNow,
    accessGrantedAt |-> IF hasStarred THEN setNow ELSE Null,
    accessRevokedAt |-> Null, gracePeriodEndsAt |-> Null,
    gracePeriodStartedAt |-> Null]}

----------------------------------------------------------------------------
(* GitHubStarVerifier.fetchWithRetry *)

MaxRetries == 3

(* only a success is handed back at once *)
ShortCircuitsBelow400(status) == status < 400

(* the response is handed back at once *)
ShortCircuits(status) == status < 500 /\ status # 429

(* the last attempt waits and retries too *)
RetriesLeftAlways(attempt) == attempt < MaxRetries

(* attempt < maxRetries - 1: another attempt follows *)
RetriesLeft(attempt) == attempt < MaxRetries - 1

(* the delay does not grow *)
BackoffDelayConstant(attempt) == 1000

(* Math.pow(2, attempt) * 1000 *)
BackoffDelay(attempt) == (2 ^ attempt) * 1000

(* One attempt of the history of a lookup *)
Response(status) == [status |-> status, error |-> NoError]
Thrown(error) == [status |-> 0, error |-> error]

----------------------------------------------------------------------------
(* GitHubStarVerifier._doVerifyStarStatus *)

UnexpectedMessage(status) ==
  <<"Unexpected GitHub API response: ", StatusText(status)>>

AuthFailedMessage == <<"GitHub ", "authentication failed", ". Token may be expired.">>

RateLimitMessage ==
  <<"GitHub API rate limit or permission issue (status: ", "403", ")">>

(* the fallback without the default of onApiFailure *)
FallbackNoDefault(error) ==
  Result(options.onApiFailure = "allow", FALSE, error, FALSE)

(* the catch block: a failure becomes the fallback result *)
Fallback(error) ==
  LET onApiFailure == IF options.onApiFailure = Unset THEN "allow"
                      ELSE options.onApiFailure
  IN Result(onApiFailure = "allow", FALSE, error, FALSE)

(* the 403 branch *)
RateLimited == Result(options.onApiFailure = "allow", FALSE, RateLimitMessage, FALSE)

(* the 401 branch treated as any other failure *)
UnauthorizedFallback == Fallback(AuthFailedMessage)

(* the 401 branch *)
Unauthorized == Result(FALSE, FALSE, AuthFailedMessage, TRUE)

NewLookup(userId) ==
  [userId |-> userId, pc |-> "cacheGet", attempt |-> 0, lastError |-> NoError,
   wakeAt |-> 0, slept |-> 0, history |-> << >>,
   setNow |-> 0, setHasStarred |-> FALSE, existing |-> {}, writes |-> 0,
   before |-> {},
   state |-> Unsettled, result |-> NoResult, reason |-> NoError]

(* a lookup as _doVerifyStarStatus starts it; before keeps the records of the
   user at that moment, for the properties *)
StartLookup(userId) ==
  [NewLookup(userId) EXCEPT !.before = {r \in store : r.userId = userId}]

(* the promise of a lookup whose frames are gone: only its outcome is left *)
Returned(lookup) ==
  [NewLookup(lookup.userId) EXCEPT !.pc = "returned", !.state = lookup.state,
                                   !.result = lookup.result,
                                   !.reason = lookup.reason]

Settle(lookup, result) ==
  [lookup EXCEPT !.pc = "settled", !.state = Resolved, !.result = result]

Reject(lookup, error) ==
  [lookup EXCEPT !.pc = "settled", !.state = Rejected, !.reason = error]

(* cache.set called from the verifier: new Date() is taken, findOne is issued *)
BeginSet(lookup, hasStarred) ==
  [lookup EXCEPT !.pc = "setFind", !.setNow = now, !.setHasStarred = hasStarred]

(* no catch block: the exception reaches the caller of verifyStarStatus *)
OnThrowPropagate(lookup, error) == Reject(lookup, error)

(* the catch block of _doVerifyStarStatus *)
OnThrow(lookup, error) == Settle(lookup, Fallback(error))

(* the branches on response.status *)
OnResponse(lookup, status) ==
  CASE status = 204 -> BeginSet(lookup, TRUE)
    [] status = 404 -> BeginSet(lookup, FALSE)
    [] status = 401 -> Settle(lookup, Unauthorized)
    [] status = 403 -> Settle(lookup, RateLimited)
    [] OTHER -> OnThrow(lookup, UnexpectedMessage(status))

----------------------------------------------------------------------------
(* The constructor of GitHubStarVerifier *)

(* options.repository given as a string: a sequence of characters *)
Chars == {"a", "b", "/"}
RepositoryStrings == UNION {[1..n -> Chars] : n \in 0..MaxLen}

(* the positions of str that hold the separator *)
Separators(str) == {i \in DOMAIN str : str[i] = "/"}

RECURSIVE Split(_)
(* String.prototype.split("/"): the segments between the separators *)
Split(str) ==
  IF Separators(str) = {} THEN <<str>>
  ELSE LET i == CHOOSE k \in Separators(str) :
                  \A j \in Separators(str) : k <= j
       IN <<SubSeq(str, 1, i - 1)>> \o Split(SubSeq(str, i + 1, Len(str)))

(* const [owner, repo] = ...: an element that is missing is undefined, which
   the test !owner || !repo treats as it treats the empty string *)
Element(parts, i) == IF i <= Len(parts) THEN parts[i] ELSE << >>

InvalidFormat(repository) ==
  [text |-> "Invalid repository format: ", repository |-> repository,
   expected |-> ". Expected \"owner/repo\""]

NoMessage == [text |-> "", repository |-> << >>, expected |-> ""]

(* new GitHubStarVerifier({repository}, cache) followed by getRepositoryKey() *)
Constructed(repository) ==
  LET owner == Element(Split(repository), 1)
      repo == Element(Split(repository), 2)
  IN IF owner = << >> \/ repo = << >>
       THEN [called |-> TRUE, repository |-> repository, threw |-> TRUE,
             message |-> InvalidFormat(repository), repoKey |-> << >>]
       ELSE [called |-> TRUE, repository |-> repository, threw |-> FALSE,
             message |-> NoMessage, repoKey |-> owner \o <<"/">> \o repo]

(* no verifier has been constructed from a string *)
NoConstruction ==
  [called |-> FALSE, repository |-> << >>, threw |-> FALSE,
   message |-> NoMessage, repoKey |-> << >>]

----------------------------------------------------------------------------
(* shouldGrantAccess *)

Decision(granted, reason, gracePeriodActive) ==
  [granted |-> granted, reason |-> reason,
   gracePeriodActive |-> gracePeriodActive]

(* Date.toISOString: the text that denotes the instant *)
ToISOString(date) == [iso |-> date]

(* an unconfigured strategy is taken for "never" *)
StrategyDefaultNever ==
  IF options.gracePeriod.strategy = Unset THEN "never"
  ELSE options.gracePeriod.strategy

(* this.options.gracePeriod?.strategy ?? "immediate" *)
Strategy ==
  IF options.gracePeriod.strategy = Unset THEN "immediate"
  ELSE options.gracePeriod.strategy

DefaultGraceDuration == 3600

(* (this.options.gracePeriod?.duration ?? 3600) * 1000 *)
GraceDurationMs ==
  (IF options.gracePeriod.duration = NotGiven THEN DefaultGraceDuration
   ELSE options.gracePeriod.duration) * 1000

(* the grant date is not looked at *)
NeverPolicyAlwaysGrants(verification) ==
  Decision(TRUE, <<"Access previously granted, never revoke policy">>, TRUE)

(* case "never" *)
(* access granted before is kept, but gracePeriodActive is not raised *)
NeverPolicySilent(verification) ==
  IF verification.accessGrantedAt # Null
    THEN Decision(TRUE, <<"Access previously granted, never revoke policy">>,
                  FALSE)
    ELSE Decision(FALSE, <<"Access was never granted">>, FALSE)

NeverPolicy(verification) ==
  IF verification.accessGrantedAt # Null
    THEN Decision(TRUE, <<"Access previously granted, never revoke policy">>, TRUE)
    ELSE Decision(FALSE, <<"Access was never granted">>, FALSE)

(* gracePeriodEndsAt is consulted before gracePeriodStartedAt *)
TimedPolicyEndsAtFirst(verification) ==
  IF verification.gracePeriodEndsAt # Null
       /\ now < verification.gracePeriodEndsAt
    THEN Decision(TRUE, <<"Grace period active until ",
                          ToISOString(verification.gracePeriodEndsAt)>>, TRUE)
  ELSE IF verification.gracePeriodStartedAt # Null
    THEN LET endsAt == verification.gracePeriodStartedAt + GraceDurationMs
         IN IF now < endsAt
              THEN Decision(TRUE, <<"Grace period active until ",
                                    ToISOString(endsAt)>>, TRUE)
              ELSE Decision(FALSE, <<"Grace period expired">>, FALSE)
  ELSE IF verification.accessGrantedAt # Null
            /\ verification.gracePeriodEndsAt = Null
    THEN Decision(TRUE, <<"Grace period starting now">>, TRUE)
  ELSE Decision(FALSE, <<"Grace period expired">>, FALSE)

(* a grace period that has run out is started again *)
TimedPolicyRestarts(verification) ==
  IF verification.gracePeriodStartedAt # Null
    THEN LET endsAt == verification.gracePeriodStartedAt + GraceDurationMs
         IN IF now < endsAt
              THEN Decision(TRUE, <<"Grace period active until ",
                                    ToISOString(endsAt)>>, TRUE)
              ELSE Decision(FALSE, <<"Grace period expired">>, FALSE)
  ELSE IF verification.gracePeriodEndsAt # Null
            /\ now < verification.gracePeriodEndsAt
    THEN Decision(TRUE, <<"Grace period active until ",
                          ToISOString(verification.gracePeriodEndsAt)>>, TRUE)
  ELSE IF verification.accessGrantedAt # Null
    THEN Decision(TRUE, <<"Grace period starting now">>, TRUE)
  ELSE Decision(FALSE, <<"Grace period expired">>, FALSE)

(* case "timed" *)
TimedPolicy(verification) ==
  IF verification.gracePeriodStartedAt # Null
    THEN LET endsAt == verification.gracePeriodStartedAt + GraceDurationMs
         IN IF now < endsAt
              THEN Decision(TRUE, <<"Grace period active until ",
                                    ToISOString(endsAt)>>, TRUE)
              ELSE Decision(FALSE, <<"Grace period expired">>, FALSE)
  ELSE IF verification.gracePeriodEndsAt # Null
            /\ now < verification.gracePeriodEndsAt
    THEN Decision(TRUE, <<"Grace period active until ",
                          ToISOString(verification.gracePeriodEndsAt)>>, TRUE)
  ELSE IF verification.accessGrantedAt # Null
            /\ verification.gracePeriodEndsAt = Null
            /\ verification.gracePeriodStartedAt = Null
    THEN Decision(TRUE, <<"Grace period starting now">>, TRUE)
  ELSE Decision(FALSE, <<"Grace period expired">>, FALSE)

(* the switch on the strategy *)
PolicyDecision(verification) ==
  CASE Strategy = "immediate" ->
         Decision(FALSE, <<"Star removed, immediate revocation">>, FALSE)
    [] Strategy = "never" -> NeverPolicy(verification)
    [] Strategy = "timed" -> TimedPolicy(verification)
    [] OTHER -> Decision(FALSE, <<"Unknown grace period strategy">>, FALSE)

(* the strategy is consulted before the star *)
ShouldGrantAccessPolicyFirst(verification) ==
  IF PolicyDecision(verification).granted \/ ~verification.hasStarred
    THEN PolicyDecision(verification)
    ELSE Decision(TRUE, <<"User has starred the repository">>, FALSE)

ShouldGrantAccess(verification) ==
  IF verification.hasStarred
    THEN Decision(TRUE, <<"User has starred the repository">>, FALSE)
    ELSE PolicyDecision(verification)

(* the strategy is not looked at *)
CalculateGracePeriodEndAlways(fromDate) == fromDate + GraceDurationMs

(* calculateGracePeriodEnd(fromDate) *)
CalculateGracePeriodEnd(fromDate) ==
  IF Strategy = "timed" THEN fromDate + GraceDurationMs ELSE Null

(* no call of calculateGracePeriodEnd has been made *)
NoGraceEnd == [called |-> FALSE, fromDate |-> 0, result |-> Null]

(* the arguments shouldGrantAccess is called with *)
GrantDates == {Null, 0, 60000, 120000}
Verifications ==
  [hasStarred : BOOLEAN, accessGrantedAt : GrantDates,
   gracePeriodEndsAt : GrantDates, gracePeriodStartedAt : GrantDates]

NoVerification ==
  [hasStarred |-> FALSE, accessGrantedAt |-> Null, gracePeriodEndsAt |-> Null,
   gracePeriodStartedAt |-> Null]

(* no call of shouldGrantAccess has been made *)
NoAccess ==
  [called |-> FALSE, verification |-> NoVerification, at |-> 0,
   result |-> Decision(FALSE, << >>, FALSE)]

----------------------------------------------------------------------------
(* The state after construction of the plugin: nothing stored, nothing in flight *)

InitWith(cacheDurations, gracePeriods) ==
  /\ now = 0
  /\ ticks = 0
  /\ options \in [onApiFailure : OnApiFailureValues,
                   cacheDuration : cacheDurations, gracePeriod : gracePeriods]
  /\ store = {}
  /\ nextRecordId = 1
  /\ pendingVerifications = << >>
  /\ lookups = << >>
  /\ calls = << >>
  /\ sets = << >>
  /\ access = NoAccess
  /\ requests = << >>
  /\ graceEnd = NoGraceEnd
  /\ construction = NoConstruction

Init == InitWith(SomeCacheDurations, {NoGracePeriod})

InitRetry == InitWith(CacheDurations, {NoGracePeriod})

(* the cache of a plugin configured with its defaults but a cache duration *)
InitCache ==
  /\ InitWith(SomeCacheDurations, {NoGracePeriod})
  /\ options.onApiFailure = Unset

(* every configuration of the grace period, under the default failure policy *)
InitGrant ==
  /\ InitWith(SomeCacheDurations, GracePeriods)
  /\ options.onApiFailure = Unset

NewCall(userId, promise, creator) ==
  [userId |-> userId, promise |-> promise, creator |-> creator,
   inFlightAtIssue |->
     {l \in DOMAIN lookups :
        lookups[l].userId = userId /\ lookups[l].state = Unsettled},
   state |-> Unsettled, result |-> NoResult, reason |-> NoError]

----------------------------------------------------------------------------
(* verifyStarStatus(userId, token), up to its first await: the lookup of the
   coalescing key, and on a miss the start of _doVerifyStarStatus (which runs
   up to the findOne of cache.get) and the insertion of its promise *)
StartVerify(userId) ==
  LET coalescingKey == CoalescingKey(userId)
      pending == MapGet(pendingVerifications, coalescingKey)
  IN IF pending # Undefined
       THEN /\ calls' = Append(calls, NewCall(userId, pending, FALSE))
            /\ UNCHANGED <<lookups, pendingVerifications>>
       ELSE /\ lookups' = Append(lookups, StartLookup(userId))
            /\ pendingVerifications' =
                 MapSet(pendingVerifications, coalescingKey, Len(lookups) + 1)
            /\ calls' = Append(calls, NewCall(userId, Len(lookups) + 1, TRUE))

(* a call of verifyStarStatus by a caller of the verifier *)
VerifyStarStatus(userId) ==
  /\ Len(calls) < MaxCalls
  /\ StartVerify(userId)
  /\ UNCHANGED <<requests, graceEnd, construction, sets, access, now, ticks, options, store, nextRecordId>>

(* _doVerifyStarStatus: cache.get returns *)
DoVerifyCacheGet(l) ==
  /\ lookups[l].pc = "cacheGet"
  /\ \E found \in FindOne(lookups[l].userId, repoKey) :
       LET cached == CacheGet(found)
       IN lookups' =
            [lookups EXCEPT ![l] =
               IF cached # {}
                 THEN Settle(@, Result((CHOOSE r \in cached : TRUE).hasStarred,
                                       TRUE, NoError, FALSE))
                 ELSE [@ EXCEPT !.pc = "fetch"]]
  /\ UNCHANGED <<requests, graceEnd, construction, sets, access, now, ticks, options, store, nextRecordId,
                 pendingVerifications, calls>>

(* the wait before the next attempt *)
Backoff(lookup) ==
  [lookup EXCEPT !.pc = "backoff",
                 !.wakeAt = now + BackoffDelay(lookup.attempt),
                 !.slept = @ + BackoffDelay(lookup.attempt)]

(* past the loop nothing is thrown and nothing returned: the promise of
   fetchWithRetry stays pending *)
NextAttemptNoThrow(lookup) ==
  IF lookup.attempt + 1 < MaxRetries
    THEN [lookup EXCEPT !.pc = "fetch", !.attempt = @ + 1]
    ELSE [lookup EXCEPT !.pc = "exhausted", !.attempt = @ + 1]

(* the end of the loop body: attempt++ and the loop condition; past the loop
   fetchWithRetry throws lastError || new Error("Max retries exceeded") *)
NextAttempt(lookup) ==
  IF lookup.attempt + 1 < MaxRetries
    THEN [lookup EXCEPT !.pc = "fetch", !.attempt = @ + 1]
    ELSE OnThrow([lookup EXCEPT !.attempt = @ + 1],
                 IF lookup.lastError # NoError THEN lookup.lastError
                 ELSE <<"Max retries exceeded">>)

(* fetchWithRetry: fetch resolves with a response of the given status *)
FetchResponds(l, status) ==
  /\ lookups[l].pc = "fetch"
  /\ LET lookup == [lookups[l] EXCEPT !.history = Append(@, Response(status))]
     IN lookups' =
          [lookups EXCEPT ![l] =
             IF ShortCircuits(status) THEN OnResponse(lookup, status)
             ELSE IF RetriesLeft(lookup.attempt) THEN Backoff(lookup)
             ELSE OnResponse(lookup, status)]
  /\ UNCHANGED <<requests, graceEnd, construction, sets, access, now, ticks, options, store, nextRecordId,
                 pendingVerifications, calls>>

(* fetchWithRetry: fetch rejects *)
FetchThrows(l, error) ==
  /\ lookups[l].pc = "fetch"
  /\ LET lookup == [lookups[l] EXCEPT !.history = Append(@, Thrown(error)),
                                      !.lastError = error]
     IN lookups' =
          [lookups EXCEPT ![l] =
             IF RetriesLeft(lookup.attempt) THEN Backoff(lookup)
             ELSE NextAttempt(lookup)]
  /\ UNCHANGED <<requests, graceEnd, construction, sets, access, now, ticks, options, store, nextRecordId,
                 pendingVerifications, calls>>

(* fetchWithRetry: the timer of the backoff fires *)
BackoffDone(l) ==
  /\ lookups[l].pc = "backoff"
  /\ now >= lookups[l].wakeAt
  /\ lookups' = [lookups EXCEPT ![l] = NextAttempt(@)]
  /\ UNCHANGED <<requests, graceEnd, construction, sets, access, now, ticks, options, store, nextRecordId,
                 pendingVerifications, calls>>

(* cache.set: findOne returns the existing record *)
SetFindOne(l) ==
  /\ lookups[l].pc = "setFind"
  /\ \E found \in FindOne(lookups[l].userId, repoKey) :
       lookups' = [lookups EXCEPT ![l] = [@ EXCEPT !.pc = "setWrite",
                                                   !.existing = found]]
  /\ UNCHANGED <<requests, graceEnd, construction, sets, access, now, ticks, options, store, nextRecordId,
                 pendingVerifications, calls>>

(* cache.set: update or create; _doVerifyStarStatus returns its result *)
SetWrite(l) ==
  /\ lookups[l].pc = "setWrite"
  /\ LET lookup == lookups[l]
     IN /\ IF lookup.existing # {}
             THEN /\ store' = SetUpdate(store, lookup.existing,
                                        lookup.setHasStarred, Null, lookup.setNow)
                  /\ UNCHANGED nextRecordId
             ELSE /\ store' = SetCreate(store, nextRecordId, lookup.userId, repoKey,
                                        lookup.setHasStarred, lookup.setNow)
                  /\ nextRecordId' = nextRecordId + 1
        /\ lookups' =
             [lookups EXCEPT ![l] =
                Settle([@ EXCEPT !.writes = @ + 1],
                       Result(lookup.setHasStarred, FALSE, NoError, FALSE))]
  /\ UNCHANGED <<requests, graceEnd, construction, sets, access, now, ticks, options, pendingVerifications, calls>>

(* verifyStarStatus of the call that started the lookup: the await ends, the
   finally block deletes the key, the call returns or throws *)
Finally(c) ==
  /\ calls[c].state = Unsettled
  /\ calls[c].creator
  /\ lookups[calls[c].promise].state # Unsettled
  /\ pendingVerifications' =
       MapDelete(pendingVerifications, CoalescingKey(calls[c].userId))
  /\ calls' = [calls EXCEPT ![c] =
                 [@ EXCEPT !.state = lookups[calls[c].promise].state,
                           !.result = lookups[calls[c].promise].result,
                           !.reason = lookups[calls[c].promise].reason]]
  /\ lookups' = [lookups EXCEPT ![calls[c].promise] = Returned(@)]
  /\ UNCHANGED <<requests, graceEnd, construction, sets, access, now, ticks, options, store, nextRecordId>>

(* verifyStarStatus of a coalesced call: the pending promise it returned settles *)
Coalesced(c) ==
  /\ calls[c].state = Unsettled
  /\ ~calls[c].creator
  /\ lookups[calls[c].promise].state # Unsettled
  /\ calls' = [calls EXCEPT ![c] =
                 [@ EXCEPT !.state = lookups[calls[c].promise].state,
                           !.result = lookups[calls[c].promise].result,
                           !.reason = lookups[calls[c].promise].reason]]
  /\ UNCHANGED <<requests, graceEnd, construction, sets, access, now, ticks, options, store, nextRecordId,
                 pendingVerifications, lookups>>

(* time passes *)
Tick(step) ==
  /\ ticks < MaxTicks
  /\ now' = now + step
  /\ ticks' = ticks + 1
  /\ UNCHANGED <<requests, graceEnd, construction, sets, access, options, store, nextRecordId, pendingVerifications,
                 lookups, calls>>

(* The verifier under concurrent calls of two users; the remote API answers
   with a status of each kind of outcome *)
Next ==
  \/ \E userId \in UserIds : VerifyStarStatus(userId)
  \/ \E l \in DOMAIN lookups : DoVerifyCacheGet(l)
  \/ \E l \in DOMAIN lookups : \E status \in SomeStatuses : FetchResponds(l, status)
  \/ \E l \in DOMAIN lookups : \E error \in SomeErrors : FetchThrows(l, error)
  \/ \E l \in DOMAIN lookups : BackoffDone(l)
  \/ \E l \in DOMAIN lookups : SetFindOne(l)
  \/ \E l \in DOMAIN lookups : SetWrite(l)
  \/ \E c \in DOMAIN calls : Finally(c)
  \/ \E c \in DOMAIN calls : Coalesced(c)
  \/ \E step \in SomeSteps : Tick(step)

Spec == Init /\ [][Next]_vars

(* The verifier under the calls of one user; the remote API answers with any
   status or fails with any error on each attempt *)
NextRetry ==
  \/ \E userId \in OneUser : VerifyStarStatus(userId)
  \/ \E l \in DOMAIN lookups : DoVerifyCacheGet(l)
  \/ \E l \in DOMAIN lookups : \E status \in Statuses : FetchResponds(l, status)
  \/ \E l \in DOMAIN lookups : \E error \in NetworkErrors : FetchThrows(l, error)
  \/ \E l \in DOMAIN lookups : BackoffDone(l)
  \/ \E l \in DOMAIN lookups : SetFindOne(l)
  \/ \E l \in DOMAIN lookups : SetWrite(l)
  \/ \E c \in DOMAIN calls : Finally(c)
  \/ \E c \in DOMAIN calls : Coalesced(c)
  \/ \E step \in TickSteps : Tick(step)

SpecRetry == InitRetry /\ [][NextRetry]_vars

(* The verifier under the calls of one user, where a call whose awaited
   promise has settled does resume: the continuation of an await is run by
   the event loop once the promise is settled *)
NextFinally ==
  \/ \E userId \in OneUser : VerifyStarStatus(userId)
  \/ \E l \in DOMAIN lookups : DoVerifyCacheGet(l)
  \/ \E l \in DOMAIN lookups : \E status \in SomeStatuses : FetchResponds(l, status)
  \/ \E l \in DOMAIN lookups : \E error \in SomeErrors : FetchThrows(l, error)
  \/ \E l \in DOMAIN lookups : BackoffDone(l)
  \/ \E l \in DOMAIN lookups : SetFindOne(l)
  \/ \E l \in DOMAIN lookups : SetWrite(l)
  \/ \E c \in DOMAIN calls : Finally(c)
  \/ \E c \in DOMAIN calls : Coalesced(c)
  \/ \E step \in SomeSteps : Tick(step)

SpecFinally ==
  /\ Init
  /\ [][NextFinally]_vars
  /\ WF_vars(\E c \in DOMAIN calls : Finally(c))

(* setTimeout of the backoff: time reaches the moment the timer is set for *)
BackoffElapses(l) ==
  /\ lookups[l].pc = "backoff"
  /\ now < lookups[l].wakeAt
  /\ now' = lookups[l].wakeAt
  /\ UNCHANGED <<ticks, options, store, nextRecordId, pendingVerifications,
                 lookups, calls, sets, access, requests, graceEnd,
                 construction>>

(* what the event loop owes a lookup: its fetch and its persistence
   operations settle, its timer fires *)
LookupProceeds(l) ==
  /\ l \in DOMAIN lookups
  /\ \/ DoVerifyCacheGet(l)
     \/ \E status \in SomeStatuses : FetchResponds(l, status)
     \/ \E error \in SomeErrors : FetchThrows(l, error)
     \/ BackoffElapses(l)
     \/ BackoffDone(l)
     \/ SetFindOne(l)
     \/ SetWrite(l)

(* what the event loop owes a call: the continuation of its await runs once
   the promise is settled *)
CallResumes(c) ==
  /\ c \in DOMAIN calls
  /\ (Finally(c) \/ Coalesced(c))

(* The verifier under the calls of one user, with every fetch, persistence
   operation and timer settling in the end *)
NextSettle ==
  \/ \E userId \in OneUser : VerifyStarStatus(userId)
  \/ \E l \in DOMAIN lookups : DoVerifyCacheGet(l)
  \/ \E l \in DOMAIN lookups : \E status \in SomeStatuses : FetchResponds(l, status)
  \/ \E l \in DOMAIN lookups : \E error \in SomeErrors : FetchThrows(l, error)
  \/ \E l \in DOMAIN lookups : BackoffElapses(l)
  \/ \E l \in DOMAIN lookups : BackoffDone(l)
  \/ \E l \in DOMAIN lookups : SetFindOne(l)
  \/ \E l \in DOMAIN lookups : SetWrite(l)
  \/ \E c \in DOMAIN calls : Finally(c)
  \/ \E c \in DOMAIN calls : Coalesced(c)

SpecSettle ==
  /\ Init
  /\ [][NextSettle]_vars
  /\ \A l \in 1..MaxCalls : WF_vars(LookupProceeds(l))
  /\ \A c \in 1..MaxCalls : WF_vars(CallResumes(c))

----------------------------------------------------------------------------
(* The cache called by other callers than the verifier *)

NewSet(userId, hasStarred, existingAccessGrantedAt) ==
  [userId |-> userId, hasStarred |-> hasStarred,
   existingAccessGrantedAt |-> existingAccessGrantedAt,
   pc |-> "setFind", setNow |-> now, existing |-> {}]

(* a set call that has returned *)
SetDone(set) ==
  [NewSet(set.userId, FALSE, Null) EXCEPT !.pc = "done", !.setNow = 0]

(* cache.set(userId, repository, hasStarred, existingAccessGrantedAt): new
   Date() is taken and findOne is issued *)
CacheSet(userId, hasStarred, existingAccessGrantedAt) ==
  /\ sets' = Append(sets, NewSet(userId, hasStarred, existingAccessGrantedAt))
  /\ UNCHANGED <<requests, graceEnd, construction, now, ticks, options, store, nextRecordId,
                 pendingVerifications, lookups, calls, access>>

(* cache.set: findOne returns *)
CacheSetFindOne(s) ==
  /\ sets[s].pc = "setFind"
  /\ \E found \in FindOne(sets[s].userId, repoKey) :
       sets' = [sets EXCEPT ![s] = [@ EXCEPT !.pc = "setWrite",
                                             !.existing = found]]
  /\ UNCHANGED <<requests, graceEnd, construction, now, ticks, options, store, nextRecordId,
                 pendingVerifications, lookups, calls, access>>

(* cache.set: adapter.update or adapter.create *)
CacheSetWrite(s) ==
  /\ sets[s].pc = "setWrite"
  /\ IF sets[s].existing # {}
       THEN /\ store' = SetUpdate(store, sets[s].existing, sets[s].hasStarred,
                                  sets[s].existingAccessGrantedAt,
                                  sets[s].setNow)
            /\ UNCHANGED nextRecordId
       ELSE /\ store' = SetCreate(store, nextRecordId, sets[s].userId, repoKey,
                                  sets[s].hasStarred, sets[s].setNow)
            /\ nextRecordId' = nextRecordId + 1
  /\ sets' = [sets EXCEPT ![s] = SetDone(@)]
  /\ UNCHANGED <<requests, graceEnd, construction, now, ticks, options, pendingVerifications, lookups, calls,
                 access>>

(* cache.setGracePeriodEnd(verificationId, gracePeriodEndsAt) *)
CacheSetGracePeriodEnd(verificationId, gracePeriodEndsAt) ==
  /\ \E r \in store : r.id = verificationId
  /\ store' = {IF r.id = verificationId
                 THEN [r EXCEPT !.gracePeriodEndsAt = gracePeriodEndsAt]
                 ELSE r : r \in store}
  /\ UNCHANGED <<requests, graceEnd, construction, now, ticks, options, nextRecordId, pendingVerifications,
                 lookups, calls, sets, access>>

(* cache.markRevoked(verificationId) *)
CacheMarkRevoked(verificationId) ==
  /\ \E r \in store : r.id = verificationId
  /\ store' = {IF r.id = verificationId
                 THEN [r EXCEPT !.accessRevokedAt = now]
                 ELSE r : r \in store}
  /\ UNCHANGED <<requests, graceEnd, construction, now, ticks, options, nextRecordId, pendingVerifications,
                 lookups, calls, sets, access>>

(* no call of set is under way *)
SetsIdle == \A s \in DOMAIN sets : sets[s].pc = "done"

(* The cache under calls that are awaited one after the other *)
NextSet ==
  \/ /\ SetsIdle
     /\ Len(sets) < MaxSets
     /\ \E userId \in OneUser : \E hasStarred \in BOOLEAN :
          \E existingAccessGrantedAt \in Overrides :
            CacheSet(userId, hasStarred, existingAccessGrantedAt)
  \/ \E s \in DOMAIN sets : CacheSetFindOne(s)
  \/ \E s \in DOMAIN sets : CacheSetWrite(s)
  \/ /\ SetsIdle
     /\ \E r \in store : CacheSetGracePeriodEnd(r.id, now + GraceDurationMs)
  \/ /\ SetsIdle
     /\ \E r \in store : CacheMarkRevoked(r.id)
  \/ \E step \in SomeSteps : Tick(step)

SpecSet == InitCache /\ [][NextSet]_vars

(* The cache under calls of set that overlap each other and the lookups of
   the verifier *)
NextRace ==
  \/ \E userId \in OneUser : VerifyStarStatus(userId)
  \/ \E l \in DOMAIN lookups : DoVerifyCacheGet(l)
  \/ \E l \in DOMAIN lookups : \E status \in {204, 404} : FetchResponds(l, status)
  \/ \E l \in DOMAIN lookups : SetFindOne(l)
  \/ \E l \in DOMAIN lookups : SetWrite(l)
  \/ \E c \in DOMAIN calls : Finally(c)
  \/ \E c \in DOMAIN calls : Coalesced(c)
  \/ /\ Len(sets) < MaxRaces
     /\ \E userId \in OneUser : \E hasStarred \in BOOLEAN :
          CacheSet(userId, hasStarred, Null)
  \/ \E s \in DOMAIN sets : CacheSetFindOne(s)
  \/ \E s \in DOMAIN sets : CacheSetWrite(s)
  \/ \E step \in SomeSteps : Tick(step)

SpecRace == InitCache /\ [][NextRace]_vars

----------------------------------------------------------------------------
(* shouldGrantAccess called with every argument under every configuration *)

ShouldGrantAccessCall(verification) ==
  /\ access' = [called |-> TRUE, verification |-> verification, at |-> now,
                result |-> ShouldGrantAccess(verification)]
  /\ UNCHANGED <<requests, graceEnd, construction, now, ticks, options, store, nextRecordId,
                 pendingVerifications, lookups, calls, sets>>

CalculateGracePeriodEndCall(fromDate) ==
  /\ graceEnd' = [called |-> TRUE, fromDate |-> fromDate,
                  result |-> CalculateGracePeriodEnd(fromDate)]
  /\ UNCHANGED <<now, ticks, options, store, nextRecordId,
                 pendingVerifications, lookups, calls, sets, access,
                 requests, construction>>

NextGrant ==
  \/ \E verification \in Verifications : ShouldGrantAccessCall(verification)
  \/ \E fromDate \in (GrantDates \ {Null}) \cup {now} :
       CalculateGracePeriodEndCall(fromDate)
  \/ /\ graceEnd.result # Null
     /\ \E verification \in Verifications :
          ShouldGrantAccessCall(
            [verification EXCEPT !.gracePeriodEndsAt = graceEnd.result])
  \/ \E step \in SomeSteps : Tick(step)

SpecGrant == InitGrant /\ [][NextGrant]_vars

----------------------------------------------------------------------------
(* The verifier constructed from every repository string *)

Construct(repository) ==
  /\ construction' = Constructed(repository)
  /\ UNCHANGED <<now, ticks, options, store, nextRecordId,
                 pendingVerifications, lookups, calls, sets, access,
                 requests, graceEnd>>

NextConstruct == \E repository \in RepositoryStrings : Construct(repository)

SpecConstruct == InitCache /\ [][NextConstruct]_vars

----------------------------------------------------------------------------
(* The requests the plugin serves: the after-hook of a GitHub login, POST
   /star-gate/refresh, and the cleanupExpired that init starts *)

(* the account row of the user: none, one without accessToken, one with *)
Accounts == {"none", "noToken", "token"}

NoDecision == Decision(FALSE, << >>, FALSE)

NewRequest(kind, userId, pc) ==
  [kind |-> kind, userId |-> userId, pc |-> pc, call |-> 0,
   hasStarred |-> FALSE, verification |-> {}, setNow |-> now, existing |-> {},
   session |-> IF kind = "login" THEN "new" ELSE "none",
   hasStarAccess |-> FALSE, gracePeriodActive |-> FALSE,
   gracePeriodEndsAt |-> Null, accessResult |-> NoDecision, code |-> "",
   result |-> NoResult, mark |-> 0, starredBefore |-> FALSE,
   decidedAt |-> Null, count |-> 0]

(* the request has been answered; what its handler held is gone *)
Done(request, code) ==
  [request EXCEPT !.pc = "done", !.code = code, !.existing = {}, !.setNow = 0]

RequestsIdle == \A q \in DOMAIN requests : requests[q].pc = "done"

(* the handler of the after-hook: newSession is there, findOne of the
   account is issued *)
HookStart(userId) ==
  /\ requests' = Append(requests, NewRequest("login", userId, "account"))
  /\ UNCHANGED <<now, ticks, options, store, nextRecordId,
                 pendingVerifications, lookups, calls, sets, access,
                 graceEnd, construction>>

(* the endpoint /star-gate/refresh with a session: cache.invalidate is
   called, its findOne is issued *)
RefreshStart(userId) ==
  /\ requests' = Append(requests, NewRequest("refresh", userId, "invFind"))
  /\ UNCHANGED <<now, ticks, options, store, nextRecordId,
                 pendingVerifications, lookups, calls, sets, access,
                 graceEnd, construction>>

(* adapter.delete with where id = the given id, but every row goes *)
AdapterDeleteAll(records, id) == {}

(* adapter.delete with where id = the given id *)
AdapterDelete(records, id) == {r \in records : r.id # id}

(* cache.invalidate: findOne returns; without a record invalidate returns and
   the findOne of the account is issued *)
InvalidateFindOne(q) ==
  /\ requests[q].pc = "invFind"
  /\ \E found \in FindOne(requests[q].userId, repoKey) :
       requests' = [requests EXCEPT ![q] =
                      IF found # {}
                        THEN [@ EXCEPT !.pc = "invDelete", !.existing = found]
                        ELSE [@ EXCEPT !.pc = "account",
                                       !.mark = Len(lookups)]]
  /\ UNCHANGED <<now, ticks, options, store, nextRecordId,
                 pendingVerifications, lookups, calls, sets, access,
                 graceEnd, construction>>

(* cache.invalidate: adapter.delete by the id of the record found *)
InvalidateDelete(q) ==
  /\ requests[q].pc = "invDelete"
  /\ store' = AdapterDelete(store,
                            (CHOOSE e \in requests[q].existing : TRUE).id)
  /\ requests' = [requests EXCEPT ![q] =
                    [@ EXCEPT !.pc = "account", !.existing = {},
                              !.mark = Len(lookups)]]
  /\ UNCHANGED <<now, ticks, options, nextRecordId,
                 pendingVerifications, lookups, calls, sets, access,
                 graceEnd, construction>>

(* the status endpoint fetches whatever cache.get returned *)
NeedsFetchAlways(verification) == TRUE

(* needsFetch of the status endpoint *)
NeedsFetch(verification) ==
  \/ verification = {}
  \/ \E r \in verification : r.expiresAt = Null \/ now > r.expiresAt

(* the response of the status endpoint, built from the record it holds *)
StatusResponse(request, verification) ==
  Done([request EXCEPT
          !.verification = verification,
          !.hasStarred = \E r \in verification : r.hasStarred,
          !.gracePeriodActive =
             \E r \in verification :
                r.gracePeriodEndsAt # Null /\ now < r.gracePeriodEndsAt,
          !.gracePeriodEndsAt =
             IF verification = {} THEN Null
             ELSE (CHOOSE r \in verification : TRUE).gracePeriodEndsAt,
          !.decidedAt = now],
       "OK")

(* findOne of the account returns: without an account or a token the hook and
   the refresh throw and the status endpoint responds, otherwise
   verifyStarStatus is called *)
FindAccount(q, account) ==
  /\ requests[q].pc = "account"
  /\ IF account = "token"
       THEN /\ StartVerify(requests[q].userId)
            /\ requests' =
                 [requests EXCEPT ![q] =
                    [@ EXCEPT !.pc = "await", !.call = Len(calls) + 1,
                              !.starredBefore =
                                 \E r \in store :
                                    /\ r.userId = requests[q].userId
                                    /\ r.hasStarred]]
       ELSE /\ requests' =
                 [requests EXCEPT ![q] =
                    IF requests[q].kind = "status"
                      THEN StatusResponse(@, requests[q].verification)
                    ELSE Done(@, IF requests[q].kind = "refresh"
                                   THEN "BAD_REQUEST"
                                 ELSE IF account = "none"
                                   THEN "GITHUB_ACCOUNT_NOT_FOUND"
                                   ELSE "GITHUB_TOKEN_MISSING")]
            /\ UNCHANGED <<pendingVerifications, lookups, calls>>
  /\ UNCHANGED <<now, ticks, options, store, nextRecordId, sets, access,
                 graceEnd, construction>>

(* the hook after verifyStarStatus has returned: a result that requires
   re-authentication deletes the session, any other goes on to cache.get *)
HookVerified(q) ==
  /\ requests[q].pc = "await"
  /\ requests[q].kind = "login"
  /\ calls[requests[q].call].state # Unsettled
  /\ LET call == calls[requests[q].call]
     IN requests' =
          [requests EXCEPT ![q] =
             IF call.state = Rejected
               THEN Done([@ EXCEPT !.result = call.result], "THROWN")
             ELSE IF call.result.requiresReauth
               THEN Done([@ EXCEPT !.result = call.result,
                                   !.session = "deleted"], "TOKEN_EXPIRED")
             ELSE [@ EXCEPT !.pc = "cacheGet", !.result = call.result,
                            !.hasStarred = call.result.hasStarred]]
  /\ UNCHANGED <<now, ticks, options, store, nextRecordId,
                 pendingVerifications, lookups, calls, sets, access,
                 graceEnd, construction>>

(* the refresh endpoint after verifyStarStatus has returned: the response *)
RefreshVerified(q) ==
  /\ requests[q].pc = "await"
  /\ requests[q].kind = "refresh"
  /\ calls[requests[q].call].state # Unsettled
  /\ LET call == calls[requests[q].call]
     IN requests' =
          [requests EXCEPT ![q] =
             IF call.state = Rejected
               THEN Done([@ EXCEPT !.result = call.result], "THROWN")
               ELSE Done([@ EXCEPT !.result = call.result,
                                   !.hasStarred = call.result.hasStarred],
                         "OK")]
  /\ UNCHANGED <<now, ticks, options, store, nextRecordId,
                 pendingVerifications, lookups, calls, sets, access,
                 graceEnd, construction>>

(* the endpoint /star-gate/status with a session: cache.get is called, its
   findOne is issued *)
StatusStart(userId) ==
  /\ requests' = Append(requests, NewRequest("status", userId, "statusGet"))
  /\ UNCHANGED <<now, ticks, options, store, nextRecordId,
                 pendingVerifications, lookups, calls, sets, access,
                 graceEnd, construction>>

(* the status endpoint: cache.get returns; the response follows unless
   needsFetch, which issues the findOne of the account *)
StatusCacheGet(q) ==
  /\ requests[q].pc = "statusGet"
  /\ \E found \in FindOne(requests[q].userId, repoKey) :
       LET verification == CacheGet(found)
       IN requests' =
            [requests EXCEPT ![q] =
               IF NeedsFetch(verification)
                 THEN [@ EXCEPT !.pc = "account",
                                !.verification = verification,
                                !.mark = Len(lookups)]
                 ELSE StatusResponse(@, verification)]
  /\ UNCHANGED <<now, ticks, options, store, nextRecordId,
                 pendingVerifications, lookups, calls, sets, access,
                 graceEnd, construction>>

(* the status endpoint after verifyStarStatus has returned: cache.get is
   called again *)
StatusVerified(q) ==
  /\ requests[q].pc = "await"
  /\ requests[q].kind = "status"
  /\ calls[requests[q].call].state # Unsettled
  /\ LET call == calls[requests[q].call]
     IN requests' =
          [requests EXCEPT ![q] =
             IF call.state = Rejected
               THEN Done([@ EXCEPT !.result = call.result], "THROWN")
               ELSE [@ EXCEPT !.pc = "statusGetAgain",
                              !.result = call.result]]
  /\ UNCHANGED <<now, ticks, options, store, nextRecordId,
                 pendingVerifications, lookups, calls, sets, access,
                 graceEnd, construction>>

(* the status endpoint: the second cache.get returns, the response follows *)
StatusCacheGetAgain(q) ==
  /\ requests[q].pc = "statusGetAgain"
  /\ \E found \in FindOne(requests[q].userId, repoKey) :
       requests' = [requests EXCEPT ![q] =
                      StatusResponse(@, CacheGet(found))]
  /\ UNCHANGED <<now, ticks, options, store, nextRecordId,
                 pendingVerifications, lookups, calls, sets, access,
                 graceEnd, construction>>

(* the error is thrown but the session is left in place *)
DeniedKeepsSession(request) == Done(request, "STAR_REQUIRED")

(* the hook on a denial: deleteSession, then APIError STAR_REQUIRED *)
Denied(request) ==
  Done([request EXCEPT !.session = "deleted"], "STAR_REQUIRED")

(* the hook from the record it holds to its next await: shouldGrantAccess,
   then deleteSession and the error, or the start of a grace period, or the
   update of the session *)
Decide(request, verification) ==
  LET record == CHOOSE r \in verification : TRUE
      accessResult ==
        ShouldGrantAccess([hasStarred |-> request.hasStarred,
                           accessGrantedAt |-> record.accessGrantedAt,
                           gracePeriodEndsAt |-> record.gracePeriodEndsAt,
                           gracePeriodStartedAt |-> Null])
      decided == [request EXCEPT !.verification = verification,
                                 !.accessResult = accessResult,
                                 !.decidedAt = now,
                                 !.existing = {}, !.setNow = 0]
  IN IF ~accessResult.granted
       THEN Denied(decided)
     ELSE IF /\ ~request.hasStarred
             /\ accessResult.gracePeriodActive
             /\ record.gracePeriodEndsAt = Null
             /\ record.accessGrantedAt # Null
             /\ CalculateGracePeriodEnd(now) # Null
       THEN [decided EXCEPT !.pc = "setGrace",
                            !.gracePeriodEndsAt = CalculateGracePeriodEnd(now)]
     ELSE [decided EXCEPT !.pc = "sessionUpdate",
                          !.gracePeriodEndsAt = record.gracePeriodEndsAt]

(* the hook: cache.get returns; without a record cache.set is called *)
HookCacheGet(q) ==
  /\ requests[q].pc = "cacheGet"
  /\ \E found \in FindOne(requests[q].userId, repoKey) :
       LET cached == CacheGet(found)
       IN requests' =
            [requests EXCEPT ![q] =
               IF cached # {} THEN Decide(@, cached)
               ELSE [@ EXCEPT !.pc = "setFind", !.setNow = now]]
  /\ UNCHANGED <<now, ticks, options, store, nextRecordId,
                 pendingVerifications, lookups, calls, sets, access,
                 graceEnd, construction>>

(* the hook's cache.set: findOne returns *)
HookSetFindOne(q) ==
  /\ requests[q].pc = "setFind"
  /\ \E found \in FindOne(requests[q].userId, repoKey) :
       requests' = [requests EXCEPT ![q] = [@ EXCEPT !.pc = "setWrite",
                                                     !.existing = found]]
  /\ UNCHANGED <<now, ticks, options, store, nextRecordId,
                 pendingVerifications, lookups, calls, sets, access,
                 graceEnd, construction>>

(* the hook's cache.set: update or create returns the record (null from an
   update that finds no row, on which the hook throws a TypeError) *)
HookSetWrite(q) ==
  /\ requests[q].pc = "setWrite"
  /\ LET request == requests[q]
         id == IF request.existing # {}
                 THEN (CHOOSE e \in request.existing : TRUE).id
                 ELSE nextRecordId
     IN /\ IF request.existing # {}
             THEN /\ store' = SetUpdate(store, request.existing,
                                        request.hasStarred, Null,
                                        request.setNow)
                  /\ UNCHANGED nextRecordId
             ELSE /\ store' = SetCreate(store, nextRecordId, request.userId,
                                        repoKey, request.hasStarred,
                                        request.setNow)
                  /\ nextRecordId' = nextRecordId + 1
        /\ requests' =
             [requests EXCEPT ![q] =
                IF \E r \in store' : r.id = id
                  THEN Decide(@, {r \in store' : r.id = id})
                  ELSE Done(@, "THROWN")]
  /\ UNCHANGED <<now, ticks, options, pendingVerifications, lookups, calls,
                 sets, access, graceEnd, construction>>

(* the hook: cache.setGracePeriodEnd returns *)
HookSetGracePeriodEnd(q) ==
  /\ requests[q].pc = "setGrace"
  /\ store' = {IF r.id = (CHOOSE v \in requests[q].verification : TRUE).id
                 THEN [r EXCEPT !.gracePeriodEndsAt =
                                   requests[q].gracePeriodEndsAt]
                 ELSE r : r \in store}
  /\ requests' = [requests EXCEPT ![q] = [@ EXCEPT !.pc = "sessionUpdate"]]
  /\ UNCHANGED <<now, ticks, options, nextRecordId,
                 pendingVerifications, lookups, calls, sets, access,
                 graceEnd, construction>>

(* the hook: adapter.update of the session *)
HookSessionUpdate(q) ==
  /\ requests[q].pc = "sessionUpdate"
  /\ requests' =
       [requests EXCEPT ![q] =
          Done([@ EXCEPT !.hasStarAccess = TRUE,
                         !.gracePeriodActive =
                            requests[q].accessResult.gracePeriodActive],
               "OK")]
  /\ UNCHANGED <<now, ticks, options, store, nextRecordId,
                 pendingVerifications, lookups, calls, sets, access,
                 graceEnd, construction>>

(* cache.cleanupExpired as init calls it: new Date() is taken, findMany is
   issued *)
CleanupStart ==
  /\ requests' = Append(requests, NewRequest("sweep", "", "findMany"))
  /\ UNCHANGED <<now, ticks, options, store, nextRecordId,
                 pendingVerifications, lookups, calls, sets, access,
                 graceEnd, construction>>

(* findMany where expiresAt lte the date *)
FindExpiredOrDue(records, date) == {r \in records : r.expiresAt <= date}

(* findMany where expiresAt lt the date *)
FindExpired(records, date) == {r \in records : r.expiresAt < date}

(* cleanupExpired: findMany returns the records with expiresAt lt the date *)
CleanupFindMany(q) ==
  /\ requests[q].pc = "findMany"
  /\ LET expired == FindExpired(store, requests[q].setNow)
     IN requests' =
          [requests EXCEPT ![q] =
             IF expired = {} THEN Done(@, "OK")
             ELSE [@ EXCEPT !.pc = "delete", !.existing = expired,
                            !.count = Cardinality(expired)]]
  /\ UNCHANGED <<now, ticks, options, store, nextRecordId,
                 pendingVerifications, lookups, calls, sets, access,
                 graceEnd, construction>>

(* cleanupExpired: adapter.delete of the next record of the loop *)
CleanupDelete(q) ==
  /\ requests[q].pc = "delete"
  /\ \E record \in requests[q].existing :
       /\ store' = AdapterDelete(store, record.id)
       /\ requests' =
            [requests EXCEPT ![q] =
               IF requests[q].existing = {record} THEN Done(@, "OK")
               ELSE [@ EXCEPT !.existing = @ \ {record}]]
  /\ UNCHANGED <<now, ticks, options, nextRecordId,
                 pendingVerifications, lookups, calls, sets, access,
                 graceEnd, construction>>

(* the statuses the remote API answers a login with *)
LoginStatuses == {204, 404, 401, 403}

(* time passes, long enough for a cached record to expire *)
Elapse(step) ==
  /\ ticks < MaxElapses
  /\ now' = now + step
  /\ ticks' = ticks + 1
  /\ UNCHANGED <<options, store, nextRecordId, pendingVerifications,
                 lookups, calls, sets, access, requests, graceEnd,
                 construction>>

(* every configuration of the plugin *)
InitLogin == InitWith(SomeCacheDurations, GracePeriods)

(* Logins of one user, one after the other, under every configuration *)
NextLogin ==
  \/ /\ RequestsIdle
     /\ Len(requests) < MaxLogins
     /\ \E userId \in OneUser : HookStart(userId)
  \/ \E q \in DOMAIN requests : \E account \in Accounts : FindAccount(q, account)
  \/ \E l \in DOMAIN lookups : DoVerifyCacheGet(l)
  \/ \E l \in DOMAIN lookups : \E status \in LoginStatuses : FetchResponds(l, status)
  \/ \E l \in DOMAIN lookups : SetFindOne(l)
  \/ \E l \in DOMAIN lookups : SetWrite(l)
  \/ \E c \in DOMAIN calls : Finally(c)
  \/ \E q \in DOMAIN requests : HookVerified(q)
  \/ \E q \in DOMAIN requests : HookCacheGet(q)
  \/ \E q \in DOMAIN requests : HookSetFindOne(q)
  \/ \E q \in DOMAIN requests : HookSetWrite(q)
  \/ \E q \in DOMAIN requests : HookSetGracePeriodEnd(q)
  \/ \E q \in DOMAIN requests : HookSessionUpdate(q)
  \/ \E step \in LongSteps : Elapse(step)

SpecLogin == InitLogin /\ [][NextLogin]_vars

(* the never strategy, the other options at their defaults *)
InitNever ==
  /\ InitWith(SomeCacheDurations,
              {[strategy |-> "never", duration |-> NotGiven]})
  /\ options.onApiFailure = Unset

(* Logins, refreshes and sweeps, one request after the other; the user has
   a token and the remote API answers whether the star is there *)
NextNever ==
  \/ /\ RequestsIdle
     /\ Len(requests) < MaxRequests
     /\ \/ \E userId \in OneUser : HookStart(userId)
        \/ \E userId \in OneUser : RefreshStart(userId)
        \/ CleanupStart
  \/ \E q \in DOMAIN requests : FindAccount(q, "token")
  \/ \E l \in DOMAIN lookups : DoVerifyCacheGet(l)
  \/ \E l \in DOMAIN lookups : \E status \in {204, 404} : FetchResponds(l, status)
  \/ \E l \in DOMAIN lookups : SetFindOne(l)
  \/ \E l \in DOMAIN lookups : SetWrite(l)
  \/ \E c \in DOMAIN calls : Finally(c)
  \/ \E q \in DOMAIN requests : HookVerified(q)
  \/ \E q \in DOMAIN requests : HookCacheGet(q)
  \/ \E q \in DOMAIN requests : HookSetFindOne(q)
  \/ \E q \in DOMAIN requests : HookSetWrite(q)
  \/ \E q \in DOMAIN requests : HookSessionUpdate(q)
  \/ \E q \in DOMAIN requests : InvalidateFindOne(q)
  \/ \E q \in DOMAIN requests : InvalidateDelete(q)
  \/ \E q \in DOMAIN requests : RefreshVerified(q)
  \/ \E q \in DOMAIN requests : CleanupFindMany(q)
  \/ \E q \in DOMAIN requests : CleanupDelete(q)
  \/ \E step \in LongSteps : Elapse(step)

SpecNever == InitNever /\ [][NextNever]_vars

(* the timed strategy with a grace period of a minute, the other options at
   their defaults *)
InitTimed ==
  /\ InitWith(SomeCacheDurations, {[strategy |-> "timed", duration |-> 60]})
  /\ options.onApiFailure = Unset

(* Logins of one user, one after the other, while the star comes and goes *)
NextTimed ==
  \/ /\ RequestsIdle
     /\ Len(requests) < MaxTimedLogins
     /\ \E userId \in OneUser : HookStart(userId)
  \/ \E q \in DOMAIN requests : FindAccount(q, "token")
  \/ \E l \in DOMAIN lookups : DoVerifyCacheGet(l)
  \/ \E l \in DOMAIN lookups : \E status \in {204, 404} : FetchResponds(l, status)
  \/ \E l \in DOMAIN lookups : SetFindOne(l)
  \/ \E l \in DOMAIN lookups : SetWrite(l)
  \/ \E c \in DOMAIN calls : Finally(c)
  \/ \E q \in DOMAIN requests : HookVerified(q)
  \/ \E q \in DOMAIN requests : HookCacheGet(q)
  \/ \E q \in DOMAIN requests : HookSetGracePeriodEnd(q)
  \/ \E q \in DOMAIN requests : HookSessionUpdate(q)
  \/ /\ RequestsIdle
     /\ \E step \in LongSteps : Elapse(step)

SpecTimed == InitTimed /\ [][NextTimed]_vars

(* Logins and refreshes of one user that overlap: a request may start while
   another is still being handled *)
NextRefresh ==
  \/ /\ Len(requests) < MaxRaces
     /\ \/ \E userId \in OneUser : HookStart(userId)
        \/ \E userId \in OneUser : RefreshStart(userId)
  \/ \E q \in DOMAIN requests : InvalidateFindOne(q)
  \/ \E q \in DOMAIN requests : InvalidateDelete(q)
  \/ \E q \in DOMAIN requests : FindAccount(q, "token")
  \/ \E l \in DOMAIN lookups : DoVerifyCacheGet(l)
  \/ \E l \in DOMAIN lookups : \E status \in {204, 404} : FetchResponds(l, status)
  \/ \E l \in DOMAIN lookups : SetFindOne(l)
  \/ \E l \in DOMAIN lookups : SetWrite(l)
  \/ \E c \in DOMAIN calls : Finally(c)
  \/ \E c \in DOMAIN calls : Coalesced(c)
  \/ \E q \in DOMAIN requests : HookVerified(q)
  \/ \E q \in DOMAIN requests : HookCacheGet(q)
  \/ \E q \in DOMAIN requests : HookSetFindOne(q)
  \/ \E q \in DOMAIN requests : HookSetWrite(q)
  \/ \E q \in DOMAIN requests : HookSessionUpdate(q)
  \/ \E q \in DOMAIN requests : RefreshVerified(q)

SpecRefresh == InitCache /\ [][NextRefresh]_vars

(* Refreshes of two users, one after the other, with or without a token,
   while records are written and expire *)
NextInvalidate ==
  \/ /\ RequestsIdle
     /\ Len(requests) < MaxRequests
     /\ \E userId \in UserIds : RefreshStart(userId)
  \/ \E q \in DOMAIN requests : InvalidateFindOne(q)
  \/ \E q \in DOMAIN requests : InvalidateDelete(q)
  \/ \E q \in DOMAIN requests : \E account \in Accounts : FindAccount(q, account)
  \/ \E l \in DOMAIN lookups : DoVerifyCacheGet(l)
  \/ \E l \in DOMAIN lookups : \E status \in {204, 404} : FetchResponds(l, status)
  \/ \E l \in DOMAIN lookups : SetFindOne(l)
  \/ \E l \in DOMAIN lookups : SetWrite(l)
  \/ \E c \in DOMAIN calls : Finally(c)
  \/ \E q \in DOMAIN requests : RefreshVerified(q)
  \/ \E step \in LongSteps : Elapse(step)

SpecInvalidate == InitCache /\ [][NextInvalidate]_vars

(* no verifyStarStatus call is running *)
CallsIdle == \A c \in DOMAIN calls : calls[c].state # Unsettled

(* Sweeps of the expired records while nothing else writes: lookups of two
   users fill the store, time passes, cleanupExpired runs *)
NextSweep ==
  \/ /\ RequestsIdle
     /\ CallsIdle
     /\ \E userId \in UserIds : VerifyStarStatus(userId)
  \/ \E l \in DOMAIN lookups : DoVerifyCacheGet(l)
  \/ \E l \in DOMAIN lookups : \E status \in {204, 404} : FetchResponds(l, status)
  \/ \E l \in DOMAIN lookups : SetFindOne(l)
  \/ \E l \in DOMAIN lookups : SetWrite(l)
  \/ \E c \in DOMAIN calls : Finally(c)
  \/ /\ RequestsIdle
     /\ CallsIdle
     /\ Len(requests) < MaxRequests
     /\ CleanupStart
  \/ \E q \in DOMAIN requests : CleanupFindMany(q)
  \/ \E q \in DOMAIN requests : CleanupDelete(q)
  \/ \E step \in SomeSteps \cup LongSteps : Elapse(step)

SpecSweep == InitCache /\ [][NextSweep]_vars

(* Status requests of one user, one after the other, with or without a
   token, before, at and after the expiry of the record *)
NextStatus ==
  \/ /\ RequestsIdle
     /\ Len(requests) < MaxRequests
     /\ \E userId \in OneUser : StatusStart(userId)
  \/ \E q \in DOMAIN requests : StatusCacheGet(q)
  \/ \E q \in DOMAIN requests : \E account \in Accounts : FindAccount(q, account)
  \/ \E l \in DOMAIN lookups : DoVerifyCacheGet(l)
  \/ \E l \in DOMAIN lookups : \E status \in {204, 404, 401} : FetchResponds(l, status)
  \/ \E l \in DOMAIN lookups : SetFindOne(l)
  \/ \E l \in DOMAIN lookups : SetWrite(l)
  \/ \E c \in DOMAIN calls : Finally(c)
  \/ \E q \in DOMAIN requests : StatusVerified(q)
  \/ \E q \in DOMAIN requests : StatusCacheGetAgain(q)
  \/ \E step \in SomeSteps \cup LongSteps : Elapse(step)

SpecStatus == InitCache /\ [][NextStatus]_vars

(* Sweeps that overlap lookups: cleanupExpired, started by init, runs while
   verifyStarStatus is called *)
NextSweepRace ==
  \/ \E userId \in OneUser : VerifyStarStatus(userId)
  \/ \E l \in DOMAIN lookups : DoVerifyCacheGet(l)
  \/ \E l \in DOMAIN lookups : \E status \in {204, 404} : FetchResponds(l, status)
  \/ \E l \in DOMAIN lookups : SetFindOne(l)
  \/ \E l \in DOMAIN lookups : SetWrite(l)
  \/ \E c \in DOMAIN calls : Finally(c)
  \/ \E c \in DOMAIN calls : Coalesced(c)
  \/ /\ Len(requests) < MaxRaces
     /\ CleanupStart
  \/ \E q \in DOMAIN requests : CleanupFindMany(q)
  \/ \E q \in DOMAIN requests : CleanupDelete(q)
  \/ \E step \in LongSteps : Elapse(step)

SpecSweepRace == InitCache /\ [][NextSweepRace]_vars

(* Logins of one user under the timed strategy: a first login, then logins
   that may overlap, as from two devices, while the star comes and goes *)
NextLoginRace ==
  \/ /\ Len(requests) < MaxRequests
     /\ Len(requests) > 0 => requests[1].pc = "done"
     /\ \E userId \in OneUser : HookStart(userId)
  \/ \E q \in DOMAIN requests : FindAccount(q, "token")
  \/ \E l \in DOMAIN lookups : DoVerifyCacheGet(l)
  \/ \E l \in DOMAIN lookups : \E status \in {204, 404} : FetchResponds(l, status)
  \/ \E l \in DOMAIN lookups : SetFindOne(l)
  \/ \E l \in DOMAIN lookups : SetWrite(l)
  \/ \E c \in DOMAIN calls : Finally(c)
  \/ \E c \in DOMAIN calls : Coalesced(c)
  \/ \E q \in DOMAIN requests : HookVerified(q)
  \/ \E q \in DOMAIN requests : HookCacheGet(q)
  \/ \E q \in DOMAIN requests : HookSetFindOne(q)
  \/ \E q \in DOMAIN requests : HookSetWrite(q)
  \/ \E q \in DOMAIN requests : HookSetGracePeriodEnd(q)
  \/ \E q \in DOMAIN requests : HookSessionUpdate(q)
  \/ \E step \in LongSteps : Elapse(step)

SpecLoginRace == InitTimed /\ [][NextLoginRace]_vars

(* the timed strategy with a grace period of a minute and onApiFailure allow *)
InitTimedAllow ==
  /\ InitWith(SomeCacheDurations, {[strategy |-> "timed", duration |-> 60]})
  /\ options.onApiFailure = "allow"

(* Logins, refreshes and sweeps of one user, one after the other, under the
   timed strategy, while the star comes and goes and the remote API may
   refuse to answer *)
NextTimedAllow ==
  \/ /\ RequestsIdle
     /\ Len(requests) < MaxTimedRequests
     /\ \/ \E userId \in OneUser : HookStart(userId)
        \/ \E userId \in OneUser : RefreshStart(userId)
        \/ CleanupStart
  \/ \E q \in DOMAIN requests : FindAccount(q, "token")
  \/ \E l \in DOMAIN lookups : DoVerifyCacheGet(l)
  \/ \E l \in DOMAIN lookups : \E status \in {204, 404, 403} : FetchResponds(l, status)
  \/ \E l \in DOMAIN lookups : SetFindOne(l)
  \/ \E l \in DOMAIN lookups : SetWrite(l)
  \/ \E c \in DOMAIN calls : Finally(c)
  \/ \E q \in DOMAIN requests : HookVerified(q)
  \/ \E q \in DOMAIN requests : HookCacheGet(q)
  \/ \E q \in DOMAIN requests : HookSetFindOne(q)
  \/ \E q \in DOMAIN requests : HookSetWrite(q)
  \/ \E q \in DOMAIN requests : HookSetGracePeriodEnd(q)
  \/ \E q \in DOMAIN requests : HookSessionUpdate(q)
  \/ \E q \in DOMAIN requests : InvalidateFindOne(q)
  \/ \E q \in DOMAIN requests : InvalidateDelete(q)
  \/ \E q \in DOMAIN requests : RefreshVerified(q)
  \/ \E q \in DOMAIN requests : CleanupFindMany(q)
  \/ \E q \in DOMAIN requests : CleanupDelete(q)
  \/ /\ RequestsIdle
     /\ \E step \in LongSteps : Elapse(step)

SpecTimedAllow == InitTimedAllow /\ [][NextTimedAllow]_vars

----------------------------------------------------------------------------
(* What the properties speak about *)

InFlight(userId) ==
  {l \in DOMAIN lookups :
     lookups[l].userId = userId /\ lookups[l].state = Unsettled}

(* a lookup that has settled and whose outcome no caller has taken yet: its
   attempts are still on record *)
RecordsOf(userId) == {r \in store : r.userId = userId}

(* the step in which the set call s writes *)
SetWrites(s) == sets[s].pc = "setWrite" /\ sets'[s].pc = "done"

(* the step in which the cache.get of lookup l returns *)
CacheRead(l) == lookups[l].pc = "cacheGet" /\ lookups'[l].pc # "cacheGet"

JustSettled == {l \in DOMAIN lookups : lookups[l].pc = "settled"}

LastAttempt(l) == lookups[l].history[Len(lookups[l].history)]

IsResponse(attempt) == attempt.error = NoError

(* an attempt that calls for a retry: a thrown error, a status >= 500, 429 *)
Failed(attempt) ==
  \/ attempt.error # NoError
  \/ attempt.status >= 500
  \/ attempt.status = 429

AnsweredWith(l, status) ==
  /\ lookups[l].history # << >>
  /\ IsResponse(LastAttempt(l))
  /\ LastAttempt(l).status = status

----------------------------------------------------------------------------
(* C1: for each user at most one lookup (_doVerifyStarStatus run) is in flight
   at any time, and a call issued while a lookup of its user is in flight
   starts none: it takes the promise of the lookup in flight. *)
C1_AtMostOneLookupInFlight ==
  /\ \A userId \in UserIds : Cardinality(InFlight(userId)) <= 1
  /\ \A c \in DOMAIN calls :
       calls[c].inFlightAtIssue # {} =>
         ~calls[c].creator /\ calls[c].promise \in calls[c].inFlightAtIssue

(* a call has arrived while the lookup of its user was in flight, and it still is *)
C1_Witness ==
  \E c \in DOMAIN calls :
    /\ calls[c].inFlightAtIssue # {}
    /\ lookups[calls[c].promise].pc = "backoff"
    /\ InFlight(calls[c].userId) = {calls[c].promise}

(* C2: calls of one user issued before the lookup of the first has settled
   share that one lookup, and all of them receive its outcome: the same
   VerificationResult. *)
C2_CoalescedCallsShareOneResult ==
  /\ \A c1, c2 \in DOMAIN calls :
       (calls[c1].userId = calls[c2].userId
          /\ calls[c1].promise \in calls[c2].inFlightAtIssue) =>
         /\ calls[c2].promise = calls[c1].promise
         /\ (calls[c1].state # Unsettled /\ calls[c2].state # Unsettled) =>
              /\ calls[c1].state = calls[c2].state
              /\ calls[c1].result = calls[c2].result
  /\ \A c \in DOMAIN calls :
       calls[c].state # Unsettled =>
         /\ calls[c].state = lookups[calls[c].promise].state
         /\ calls[c].result = lookups[calls[c].promise].result
  /\ \A l \in DOMAIN lookups :
       Cardinality({c \in DOMAIN calls : calls[c].promise = l /\ calls[c].creator}) = 1

(* two calls of one user, the second issued while the first was in flight, have
   both returned the result of the one remote lookup *)
C2_Witness ==
  \E c1, c2 \in DOMAIN calls :
    /\ c1 # c2
    /\ calls[c1].promise \in calls[c2].inFlightAtIssue
    /\ calls[c1].state = Resolved
    /\ calls[c2].state = Resolved
    /\ ~calls[c1].result.cached
    /\ calls[c1].result.hasStarred
    /\ Len(lookups) = 1

(* C3: verifyStarStatus raises no exception, whatever the remote API answers
   and however often fetch fails: every lookup and every call that settles is
   resolved with a VerificationResult. *)
C3_NeverThrows ==
  /\ \A l \in DOMAIN lookups : lookups[l].state # Rejected
  /\ \A c \in DOMAIN calls : calls[c].state # Rejected
  /\ \A l \in JustSettled :
       lookups[l].state = Resolved /\ lookups[l].reason = NoError

(* a call has returned a result after fetch failed on all three attempts *)
C3_Witness ==
  \E c \in DOMAIN calls :
    /\ calls[c].state = Resolved
    /\ lookups[calls[c].promise].pc = "settled"
    /\ Len(lookups[calls[c].promise].history) = 3
    /\ \A i \in 1..3 : ~IsResponse(lookups[calls[c].promise].history[i])

(* C4: when the remote API answers 204 (resp. 404) on a cache miss, the result
   is {hasStarred: true (resp. false), cached: false} without error, the lookup
   has written once, and the record of the user then holds that hasStarred and
   is served by cache.get for as long as the cache duration has not passed
   since the write was begun. *)
C4_StarStatusWrittenThrough ==
  \A l \in JustSettled :
    \A status \in {204, 404} :
      AnsweredWith(l, status) =>
        /\ lookups[l].result = Result(status = 204, FALSE, NoError, FALSE)
        /\ lookups[l].writes = 1
        /\ RecordsOf(lookups[l].userId) # lookups[l].before
        /\ \A found \in FindOne(lookups[l].userId, repoKey) :
             /\ found # {}
             /\ \A r \in found : r.hasStarred = (status = 204)
             /\ now < lookups[l].setNow + CacheDurationMs
                  => CacheGet(found) = found

(* a 404 has been written over the record of an earlier 204 that had expired *)
C4_Witness ==
  \E l \in JustSettled :
    /\ AnsweredWith(l, 404)
    /\ \E r \in lookups[l].existing : r.hasStarred
    /\ \E r \in store : r.userId = lookups[l].userId /\ ~r.hasStarred

(* C5: when the remote API answers 401 the result is hasStarred=false,
   cached=false, requiresReauth=true with an error that names the failed
   authentication, whatever onApiFailure is, and the lookup has written no
   verification record. *)
C5_UnauthorizedRequiresReauth ==
  \A l \in JustSettled :
    AnsweredWith(l, 401) =>
      /\ ~lookups[l].result.hasStarred
      /\ ~lookups[l].result.cached
      /\ lookups[l].result.requiresReauth
      /\ Contains(lookups[l].result.error, "authentication failed")
      /\ lookups[l].writes = 0
      /\ RecordsOf(lookups[l].userId) = lookups[l].before

(* a 401 has been answered under onApiFailure = "allow" *)
C5_Witness ==
  \E l \in JustSettled :
    /\ AnsweredWith(l, 401)
    /\ options.onApiFailure = "allow"
    /\ lookups[l].result.requiresReauth

(* C6: when the remote API answers 403 the result has hasStarred=true unless
   onApiFailure is "deny" (allow being the default when it is not configured),
   its error mentions 403, the response was not retried and no record was
   written. *)
C6_RateLimitedFallsBack ==
  \A l \in JustSettled :
    AnsweredWith(l, 403) =>
      /\ lookups[l].result.hasStarred = (options.onApiFailure # "deny")
      /\ ~lookups[l].result.cached
      /\ Contains(lookups[l].result.error, "403")
      /\ lookups[l].writes = 0
      /\ RecordsOf(lookups[l].userId) = lookups[l].before
      /\ \A i \in DOMAIN lookups[l].history :
           lookups[l].history[i] = Response(403) => i = Len(lookups[l].history)

(* C7: when the lookup fails by exception - fetch throws on the third attempt,
   the third attempt still answers 429 or a status >= 500, or the answer is a
   status outside {204, 404, 401, 403} - the result is cached=false, error =
   the message of the failure, hasStarred=true unless onApiFailure is "deny",
   and the lookup has written no verification record. *)
C7_FailureFallsBack ==
  \A l \in JustSettled :
    (lookups[l].history # << >>
       /\ (IsResponse(LastAttempt(l)) => LastAttempt(l).status \notin {204, 404, 401, 403})) =>
      /\ lookups[l].result =
           Result(options.onApiFailure # "deny", FALSE,
                  IF IsResponse(LastAttempt(l))
                    THEN <<"Unexpected GitHub API response: ",
                           StatusText(LastAttempt(l).status)>>
                    ELSE LastAttempt(l).error,
                  FALSE)
      /\ Failed(LastAttempt(l)) => Len(lookups[l].history) = 3
      /\ lookups[l].writes = 0
      /\ RecordsOf(lookups[l].userId) = lookups[l].before

(* with onApiFailure not configured, a lookup has ended on a 429 still
   answered on the third attempt *)
C7_Witness ==
  \E l \in JustSettled :
    /\ options.onApiFailure = Unset
    /\ Len(lookups[l].history) = 3
    /\ AnsweredWith(l, 429)
    /\ lookups[l].result.hasStarred

(* C8: a lookup issues at most 3 fetch attempts, and exactly 1 when the first
   response has a status below 500 other than 429: no attempt and no wait
   follows it. *)
C8_AtMostThreeAttempts ==
  \A l \in DOMAIN lookups :
    /\ Len(lookups[l].history) <= 3
    /\ (lookups[l].history # << >>
          /\ IsResponse(lookups[l].history[1])
          /\ lookups[l].history[1].status < 500
          /\ lookups[l].history[1].status # 429) =>
         /\ Len(lookups[l].history) = 1
         /\ lookups[l].pc \notin {"fetch", "backoff"}
         /\ lookups[l].slept = 0

(* a lookup has made three attempts, and another one has stopped after a 401 *)
C8_Witness ==
  /\ \E l \in DOMAIN lookups : Len(lookups[l].history) = 3
  /\ \E c \in DOMAIN calls : calls[c].state = Resolved /\ calls[c].result.requiresReauth

(* C9: a response with status >= 500 or 429 and a thrown error are retried
   while attempts remain, so a lookup ends on one only at the third attempt;
   a response of the third attempt is handed back as it is, whatever the
   earlier attempts were (a 500 or 429 becomes the fallback result whose error
   names the status), and fetchWithRetry throws only when the third attempt
   threw, with the error of that attempt. *)
C9_LastAttemptDecides ==
  \A l \in DOMAIN lookups :
    /\ (lookups[l].history # << >> /\ Failed(LastAttempt(l))) =>
         IF Len(lookups[l].history) < 3
           THEN \/ lookups[l].pc = "backoff"
                   /\ lookups[l].attempt = Len(lookups[l].history) - 1
                \/ lookups[l].pc = "fetch"
                   /\ lookups[l].attempt = Len(lookups[l].history)
           ELSE lookups[l].pc = "settled"
    /\ (l \in JustSettled /\ lookups[l].history # << >>) =>
         IF IsResponse(LastAttempt(l))
           THEN /\ lookups[l].result.error \notin NetworkErrors
                /\ lookups[l].result.error # <<"Max retries exceeded">>
                /\ Failed(LastAttempt(l)) =>
                     /\ Contains(lookups[l].result.error,
                                 StatusText(LastAttempt(l).status))
                     /\ lookups[l].result.hasStarred = (options.onApiFailure # "deny")
                /\ LastAttempt(l).status = 204 => lookups[l].result.hasStarred
           ELSE /\ Len(lookups[l].history) = 3
                /\ lookups[l].result.error = LastAttempt(l).error

(* fetch threw on the first attempt and the third attempt answered 500 *)
C9_Witness ==
  \E l \in JustSettled :
    /\ Len(lookups[l].history) = 3
    /\ ~IsResponse(lookups[l].history[1])
    /\ AnsweredWith(l, 500)
    /\ Contains(lookups[l].result.error, "500")

(* C10 as stated: a lookup whose three attempts all fail has waited
   1 + 2 + 4 = 7 seconds in enforced backoff. *)
C10_SevenSecondsOfBackoff ==
  \A l \in JustSettled :
    (Len(lookups[l].history) = 3
       /\ \A i \in 1..3 : Failed(lookups[l].history[i])) =>
      lookups[l].slept = 7000

(* C10 amended: a wait of 2^k seconds follows the failed attempt k for k = 0
   and 1 only; no wait follows the third attempt, so a lookup whose three
   attempts all fail has waited 1 + 2 = 3 seconds, and the next attempt is not
   made before the wait is over. *)
C10_ThreeSecondsOfBackoff ==
  \A l \in DOMAIN lookups :
    LET failed == Cardinality({i \in DOMAIN lookups[l].history :
                                 Failed(lookups[l].history[i])})
    IN lookups[l].pc # "returned" =>
         /\ lookups[l].slept = CASE failed = 0 -> 0
                                 [] failed = 1 -> 1000
                                 [] OTHER -> 1000 + 2000
         /\ (lookups[l].pc = "fetch" /\ failed > 0) => now >= lookups[l].wakeAt
         /\ lookups[l].pc = "backoff" =>
              lookups[l].wakeAt <= now + (IF failed = 1 THEN 1000 ELSE 2000)

(* all three attempts of a lookup have failed *)
C10_Witness ==
  \E l \in JustSettled :
    /\ Len(lookups[l].history) = 3
    /\ \A i \in 1..3 : Failed(lookups[l].history[i])
    /\ lookups[l].slept = 3000

(* C11: a record written by set at time t (its lastCheckedAt) under a cache
   duration of d minutes (15 when the option is left out) is served from the
   cache by every lookup that reads it before t + d: the result is the stored
   hasStarred with cached=true and no error, no request is made to the remote
   API and nothing is written to the store. *)
C11_FreshRecordServedFromCache ==
  [][\A l \in DOMAIN lookups :
       CacheRead(l) =>
         \A r \in RecordsOf(lookups[l].userId) :
           now < r.lastCheckedAt + CacheDurationMinutes * 60000 =>
             /\ lookups'[l].pc = "settled"
             /\ lookups'[l].state = Resolved
             /\ lookups'[l].result = Result(r.hasStarred, TRUE, NoError, FALSE)
             /\ lookups'[l].history = << >>
             /\ lookups'[l].writes = 0
             /\ store' = store]_vars

(* a second call has been answered from the record the first one wrote, a
   minute later under the default duration *)
C11_Witness ==
  \E l \in JustSettled :
    /\ options.cacheDuration = NotGiven
    /\ lookups[l].result = Result(TRUE, TRUE, NoError, FALSE)
    /\ lookups[l].history = << >>
    /\ \E r \in RecordsOf(lookups[l].userId) :
         r.hasStarred /\ r.lastCheckedAt < now /\ now < r.expiresAt

(* C12: a record whose expiresAt is in the past is reported absent by get
   although it is still in the store, and a lookup that reads it then goes on
   to the remote API instead of returning the stored value. *)
C12_ExpiredRecordLooksAbsent ==
  [][\A l \in DOMAIN lookups :
       CacheRead(l) =>
         \A found \in FindOne(lookups[l].userId, repoKey) :
           (found # {} /\ \A r \in found : r.expiresAt < now) =>
             /\ CacheGet(found) = {}
             /\ lookups'[l].pc = "fetch"
             /\ lookups'[l].state = Unsettled
             /\ found \subseteq store']_vars

(* a lookup is at the remote API while the expired record of its user is
   still stored *)
C12_Witness ==
  \E l \in DOMAIN lookups :
    /\ lookups[l].pc = "fetch"
    /\ lookups[l].history = << >>
    /\ lookups[l].before # {}
    /\ \A r \in lookups[l].before : r \in store /\ r.expiresAt < now

(* C13 as stated: at the instant now = expiresAt get returns null, and the
   lookup is not served from the cache. *)
C13_AbsentAtExpiresAt ==
  [][\A l \in DOMAIN lookups :
       CacheRead(l) =>
         \A r \in RecordsOf(lookups[l].userId) :
           r.expiresAt = now =>
             /\ CacheGet({r}) = {}
             /\ lookups'[l].pc = "fetch"]_vars

(* C13 amended: get reports a record absent only when expiresAt < now; at the
   instant now = expiresAt it still returns the record and the lookup is
   served from the cache. *)
C13_ValidThroughExpiresAt ==
  [][\A l \in DOMAIN lookups :
       CacheRead(l) =>
         \A r \in RecordsOf(lookups[l].userId) :
           /\ CacheGet({r}) = IF now <= r.expiresAt THEN {r} ELSE {}
           /\ r.expiresAt = now =>
                /\ lookups'[l].pc = "settled"
                /\ lookups'[l].result =
                     Result(r.hasStarred, TRUE, NoError, FALSE)]_vars

(* a lookup has been served from a record at the instant of its expiresAt *)
C13_Witness ==
  \E l \in JustSettled :
    /\ lookups[l].result.cached
    /\ \E r \in RecordsOf(lookups[l].userId) : r.expiresAt = now

(* C14: after any interleaving of verifyStarStatus calls and cache.set calls
   the store holds at most one starVerification record for each pair of
   userId and repository. *)
C14_OneRecordPerPair ==
  \A r \in store : \A q \in store :
    (r.userId = q.userId /\ r.repository = q.repository) => r = q

(* C15: a set without an override leaves a grant date that is not null as it
   was, whether it sets hasStarred to true or to false, and a set of false on
   a pair without a grant date (or without a record) leaves the date null. *)
C15_GrantDateKept ==
  [][\A s \in DOMAIN sets :
       (SetWrites(s) /\ sets[s].existingAccessGrantedAt = Null) =>
         /\ \A r \in RecordsOf(sets[s].userId) :
              \E q \in store' :
                /\ q.id = r.id
                /\ r.accessGrantedAt # Null =>
                     q.accessGrantedAt = r.accessGrantedAt
                /\ (r.accessGrantedAt = Null /\ ~sets[s].hasStarred) =>
                     q.accessGrantedAt = Null
         /\ (RecordsOf(sets[s].userId) = {} /\ ~sets[s].hasStarred) =>
              \A q \in store' : q.accessGrantedAt = Null]_vars

(* a record created with a star has been set to false at a later time and
   still carries the date of the grant *)
C15_Witness ==
  /\ SetsIdle
  /\ \E r \in store :
       /\ ~r.hasStarred
       /\ r.accessGrantedAt = r.createdAt
       /\ r.accessGrantedAt < r.lastCheckedAt

(* C16: set(u, r, true, override) stores accessGrantedAt = override whenever
   an override is supplied, whether or not a record exists for the pair;
   without an override it stores the grant date of the prior record if there
   is one, and now otherwise. *)
C16_OverrideStored ==
  [][\A s \in DOMAIN sets :
       (SetWrites(s) /\ sets[s].hasStarred) =>
         \E q \in store' :
           /\ q.userId = sets[s].userId
           /\ q.lastCheckedAt = sets[s].setNow
           /\ q.accessGrantedAt =
                IF sets[s].existingAccessGrantedAt # Null
                  THEN sets[s].existingAccessGrantedAt
                ELSE IF \E r \in sets[s].existing : r.accessGrantedAt # Null
                  THEN (CHOOSE r \in sets[s].existing : TRUE).accessGrantedAt
                ELSE sets[s].setNow]_vars

(* C17: set on an existing record changes hasStarred, lastCheckedAt,
   expiresAt and accessGrantedAt only and touches no other record; set on a
   pair without a record adds one record whose gracePeriodEndsAt and
   accessRevokedAt are null. *)
C17_SetChangesFourFields ==
  [][\A s \in DOMAIN sets :
       SetWrites(s) =>
         IF sets[s].existing # {}
           THEN \A r \in store :
                  IF r.id = (CHOOSE e \in sets[s].existing : TRUE).id
                    THEN \E q \in store' :
                           /\ q.id = r.id
                           /\ q.userId = r.userId
                           /\ q.repository = r.repository
                           /\ q.createdAt = r.createdAt
                           /\ q.gracePeriodEndsAt = r.gracePeriodEndsAt
                           /\ q.gracePeriodStartedAt = r.gracePeriodStartedAt
                           /\ q.accessRevokedAt = r.accessRevokedAt
                           /\ q.hasStarred = sets[s].hasStarred
                           /\ q.lastCheckedAt = sets[s].setNow
                    ELSE r \in store'
           ELSE \E q \in store' :
                  /\ store' = store \cup {q}
                  /\ q \notin store
                  /\ q.gracePeriodEndsAt = Null
                  /\ q.accessRevokedAt = Null]_vars

(* a record that carries a grace period and a revocation has been set again
   after both were written *)
C17_Witness ==
  /\ SetsIdle
  /\ \E r \in store :
       /\ r.gracePeriodEndsAt # Null
       /\ r.accessRevokedAt # Null
       /\ r.accessRevokedAt < r.lastCheckedAt
       /\ r.createdAt < r.accessRevokedAt

(* C18: shouldGrantAccess called with hasStarred = true grants with
   gracePeriodActive = false under every strategy (immediate, timed, never,
   not configured, unrecognised) and whatever accessGrantedAt,
   gracePeriodEndsAt and gracePeriodStartedAt are. *)
C18_StarGrants ==
  (access.called /\ access.verification.hasStarred) =>
    /\ access.result.granted
    /\ ~access.result.gracePeriodActive
    /\ access.result.reason = <<"User has starred the repository">>

(* granted under the timed strategy although both grace timestamps of the
   argument had run out when the call was made *)
C18_Witness ==
  /\ access.called
  /\ access.verification.hasStarred
  /\ options.gracePeriod.strategy = "timed"
  /\ access.verification.gracePeriodEndsAt # Null
  /\ access.verification.gracePeriodEndsAt < access.at
  /\ access.verification.gracePeriodStartedAt # Null
  /\ access.verification.gracePeriodStartedAt + GraceDurationMs <= access.at
  /\ access.result.granted

(* C19: shouldGrantAccess called with hasStarred = false denies with
   gracePeriodActive = false under every strategy other than timed and never
   (immediate, gracePeriod not configured, an unrecognised strategy),
   whatever accessGrantedAt and the grace timestamps are. *)
C19_NoStarDeniesOutsideGrace ==
  (access.called /\ ~access.verification.hasStarred
     /\ options.gracePeriod.strategy \notin {"timed", "never"}) =>
    /\ ~access.result.granted
    /\ ~access.result.gracePeriodActive

(* denied without a configured grace period although access had been granted
   before and the grace timestamp of the argument had not run out *)
C19_Witness ==
  /\ access.called
  /\ ~access.verification.hasStarred
  /\ options.gracePeriod.strategy = Unset
  /\ access.verification.accessGrantedAt # Null
  /\ access.verification.gracePeriodEndsAt > access.at
  /\ ~access.result.granted

(* C20: under the never strategy shouldGrantAccess called with
   hasStarred = false grants, with gracePeriodActive = true, if and only if
   accessGrantedAt is set, whatever gracePeriodEndsAt and
   gracePeriodStartedAt are. *)
C20_NeverKeepsGrantedAccess ==
  (access.called /\ ~access.verification.hasStarred
     /\ options.gracePeriod.strategy = "never") =>
    /\ access.result.granted <=> access.verification.accessGrantedAt # Null
    /\ access.result.gracePeriodActive <=> access.result.granted

(* denied under the never strategy for want of a grant date although the
   grace timestamp of the argument had not run out *)
C20_Witness ==
  /\ access.called
  /\ ~access.verification.hasStarred
  /\ options.gracePeriod.strategy = "never"
  /\ access.verification.accessGrantedAt = Null
  /\ access.verification.gracePeriodEndsAt > access.at
  /\ ~access.result.granted

(* the duration of the grace period in milliseconds as the options give it:
   the configured number of seconds, 3600 when none is configured *)
ConfiguredGraceMs ==
  IF options.gracePeriod.duration = NotGiven THEN 3600000
  ELSE options.gracePeriod.duration * 1000

(* C21: under the timed strategy with hasStarred = false and
   gracePeriodStartedAt set, shouldGrantAccess grants (gracePeriodActive =
   true) exactly while now < gracePeriodStartedAt + duration and denies with
   reason "Grace period expired" from that instant on, whatever
   gracePeriodEndsAt and accessGrantedAt are. *)
C21_TimedFromStartedAt ==
  (access.called /\ ~access.verification.hasStarred
     /\ options.gracePeriod.strategy = "timed"
     /\ access.verification.gracePeriodStartedAt # Null) =>
    LET endsAt == access.verification.gracePeriodStartedAt + ConfiguredGraceMs
    IN /\ access.result.granted <=> access.at < endsAt
       /\ access.result.gracePeriodActive <=> access.result.granted
       /\ ~access.result.granted =>
            access.result.reason = <<"Grace period expired">>

(* denied at the very instant gracePeriodStartedAt + duration although
   gracePeriodEndsAt lay in the future *)
C21_Witness ==
  /\ access.called
  /\ ~access.verification.hasStarred
  /\ options.gracePeriod.strategy = "timed"
  /\ access.verification.gracePeriodStartedAt # Null
  /\ access.at = access.verification.gracePeriodStartedAt + ConfiguredGraceMs
  /\ access.verification.gracePeriodEndsAt > access.at
  /\ ~access.result.granted

(* C22: under the timed strategy with hasStarred = false and no
   gracePeriodStartedAt, shouldGrantAccess grants with gracePeriodActive =
   true while now < gracePeriodEndsAt, denies with reason "Grace period
   expired" once gracePeriodEndsAt has passed even if accessGrantedAt is set,
   grants with reason "Grace period starting now" when there is no
   gracePeriodEndsAt but an accessGrantedAt, and denies when there is no
   timestamp at all. *)
C22_TimedWithoutStartedAt ==
  (access.called /\ ~access.verification.hasStarred
     /\ options.gracePeriod.strategy = "timed"
     /\ access.verification.gracePeriodStartedAt = Null) =>
    LET endsAt == access.verification.gracePeriodEndsAt
        grantedAt == access.verification.accessGrantedAt
    IN /\ access.result.gracePeriodActive <=> access.result.granted
       /\ (endsAt # Null /\ access.at < endsAt) =>
            /\ access.result.granted
            /\ access.result.reason =
                 <<"Grace period active until ", ToISOString(endsAt)>>
       /\ (endsAt # Null /\ endsAt <= access.at) =>
            /\ ~access.result.granted
            /\ access.result.reason = <<"Grace period expired">>
       /\ (endsAt = Null /\ grantedAt # Null) =>
            /\ access.result.granted
            /\ access.result.reason = <<"Grace period starting now">>
       /\ (endsAt = Null /\ grantedAt = Null) => ~access.result.granted

(* denied for a gracePeriodEndsAt that had passed although accessGrantedAt
   was set *)
C22_Witness ==
  /\ access.called
  /\ ~access.verification.hasStarred
  /\ options.gracePeriod.strategy = "timed"
  /\ access.verification.gracePeriodStartedAt = Null
  /\ access.verification.gracePeriodEndsAt # Null
  /\ access.verification.gracePeriodEndsAt < access.at
  /\ access.verification.accessGrantedAt # Null
  /\ access.result.reason = <<"Grace period expired">>

(* C23: calculateGracePeriodEnd(t) is null under the immediate and never
   strategies and when no strategy is configured, and t + duration seconds
   under timed (3600 when no duration is configured); shouldGrantAccess
   called without a star and without gracePeriodStartedAt on a
   gracePeriodEndsAt computed this way grants exactly while
   now < t + duration. *)
C23_GracePeriodEnd ==
  graceEnd.called =>
    /\ graceEnd.result =
         IF options.gracePeriod.strategy = "timed"
           THEN graceEnd.fromDate + ConfiguredGraceMs
           ELSE Null
    /\ (access.called /\ graceEnd.result # Null
          /\ ~access.verification.hasStarred
          /\ access.verification.gracePeriodStartedAt = Null
          /\ access.verification.gracePeriodEndsAt = graceEnd.result) =>
         (access.result.granted <=>
            access.at < graceEnd.fromDate + ConfiguredGraceMs)

(* a grace period computed from the clock a minute ago is over: the call of
   shouldGrantAccess on it, made at the instant of its end, has denied *)
C23_Witness ==
  /\ graceEnd.called
  /\ graceEnd.fromDate > 0
  /\ graceEnd.result = graceEnd.fromDate + 60000
  /\ access.called
  /\ ~access.verification.hasStarred
  /\ access.verification.gracePeriodStartedAt = Null
  /\ access.verification.gracePeriodEndsAt = graceEnd.result
  /\ access.verification.accessGrantedAt # Null
  /\ access.at = graceEnd.result
  /\ ~access.result.granted

(* a repository string of two segments that are not empty, separated by the
   only "/" of the string *)
ValidRepository(str) ==
  /\ Cardinality(Separators(str)) = 1
  /\ str[1] # "/"
  /\ str[Len(str)] # "/"

(* C28: for every string "owner/repo" with owner and repo not empty and no
   further "/" the repository key equals the string; for every other string
   (no "/", an empty segment, more than one "/") the construction fails with
   an error that names the string. *)
C28_RepositoryKeyOrError ==
  construction.called =>
    IF ValidRepository(construction.repository)
      THEN /\ ~construction.threw
           /\ construction.repoKey = construction.repository
      ELSE /\ construction.threw
           /\ construction.message.repository = construction.repository

(* the entry of lookup l is in pendingVerifications *)
HasEntry(l) ==
  \E key \in DOMAIN pendingVerifications : pendingVerifications[key] = l

(* no entry outlives the calls, and a lookup in flight has its entry *)
EntriesFollowCalls ==
  /\ (\A c \in DOMAIN calls : calls[c].state # Unsettled)
       => pendingVerifications = << >>
  /\ \A l \in DOMAIN lookups : lookups[l].state = Unsettled => HasEntry(l)

(* an entry is removed only when its own lookup has settled, and a call made
   when none is in flight starts a lookup at its cache read *)
EntriesRemovedBySettling ==
  /\ \A l \in DOMAIN lookups :
       (HasEntry(l) /\ ~HasEntry(l)') => lookups[l].state # Unsettled
  /\ (Len(calls') > Len(calls)
        /\ \A c \in DOMAIN calls : calls[c].state # Unsettled) =>
       /\ calls'[Len(calls')].creator
       /\ calls'[Len(calls')].promise = Len(lookups) + 1
       /\ lookups'[Len(lookups) + 1].pc = "cacheGet"

(* C29: the entry of a lookup that has settled, with a result or with an
   exception, is eventually removed from pendingVerifications; an entry is
   removed only when its own lookup has settled, so the map is empty once no
   call is in flight; and a call made when none is in flight starts a lookup
   of its own, which begins with its own cache read. *)
C29_EntryRemovedOnceSettled ==
  /\ []EntriesFollowCalls
  /\ [][EntriesRemovedBySettling]_vars
  /\ \A l \in 1..(MaxCalls + 1) :
       (l \in DOMAIN lookups /\ lookups[l].state # Unsettled /\ HasEntry(l))
         ~> ~HasEntry(l)

(* the first call has returned and the entry of the key is that of the
   lookup the second call has started *)
C29_Witness ==
  /\ Len(lookups) = 2
  /\ calls[1].state # Unsettled
  /\ lookups[1].userId = lookups[2].userId
  /\ HasEntry(2)
  /\ ~HasEntry(1)

(* the logins that got as far as the star check and have been answered *)
CheckedLogins ==
  {q \in DOMAIN requests :
     /\ requests[q].kind = "login"
     /\ requests[q].pc = "done"
     /\ requests[q].call # 0}

(* C27: when the post-login hook has run for a user with a linked account
   and a token, then if the verification required re-authentication the new
   session is deleted and TOKEN_EXPIRED is raised, if shouldGrantAccess
   denied the new session is deleted and STAR_REQUIRED is raised, and
   otherwise the session is kept and marked hasStarAccess = true; a session
   is never marked hasStarAccess = true after a denial. *)
C27_SessionFollowsDecision ==
  /\ \A q \in CheckedLogins :
       LET request == requests[q]
       IN IF request.result.requiresReauth
            THEN /\ request.session = "deleted"
                 /\ request.code = "TOKEN_EXPIRED"
                 /\ ~request.hasStarAccess
          ELSE IF ~request.accessResult.granted
            THEN /\ request.session = "deleted"
                 /\ request.code = "STAR_REQUIRED"
                 /\ ~request.hasStarAccess
          ELSE /\ request.session = "new"
               /\ request.code = "OK"
               /\ request.hasStarAccess
  /\ \A q \in DOMAIN requests :
       requests[q].hasStarAccess =>
         /\ requests[q].accessResult.granted
         /\ requests[q].session = "new"
         /\ ~requests[q].result.requiresReauth

(* a login of a user who has taken the star away after an earlier login was
   granted has been denied and its session deleted *)
C27_Witness ==
  \E q \in CheckedLogins : \E p \in CheckedLogins :
    /\ p < q
    /\ requests[p].hasStarAccess
    /\ requests[q].code = "STAR_REQUIRED"
    /\ requests[q].session = "deleted"
    /\ requests[q].verification # {}

(* C24: under the never strategy, once a login of a user has been granted
   because the user had starred, every later login of that user is granted,
   also when the star is gone, after any sequence of cache expiries,
   refreshes and sweeps of expired records. *)
C24_NeverRevokedOnceGranted ==
  options.gracePeriod.strategy = "never" =>
    \A p \in CheckedLogins : \A q \in CheckedLogins :
      (p < q /\ requests[p].code = "OK" /\ requests[p].hasStarred) =>
        requests[q].code = "OK"

(* the logins whose lookup found the star gone from a user whose record
   showed it *)
DetectedUnstar ==
  {q \in CheckedLogins :
     /\ requests[q].starredBefore
     /\ ~requests[q].hasStarred
     /\ ~requests[q].result.cached
     /\ requests[q].result.error = NoError}

(* C25: under the timed strategy a login that detects that a user with
   access granted before has taken the star away is granted, and access
   continues until duration seconds after the detection, also when the star
   is taken away a second time after it was given back following an earlier
   grace period. *)
C25_GraceAfterEveryUnstar ==
  options.gracePeriod.strategy = "timed" =>
    \A q \in DetectedUnstar :
      /\ requests[q].code = "OK"
      /\ requests[q].gracePeriodActive
      /\ requests[q].gracePeriodEndsAt =
           requests[q].decidedAt + ConfiguredGraceMs

(* the refreshes that have sent their response *)
AnsweredRefreshes ==
  {q \in DOMAIN requests :
     /\ requests[q].kind = "refresh"
     /\ requests[q].pc = "done"
     /\ requests[q].code = "OK"}

(* C26: the result that POST /star-gate/refresh returns comes from a lookup
   of the remote API that was started after the record of the user was
   invalidated, never from the cache and never from a lookup started
   earlier, also while another verifyStarStatus call for the user is in
   flight. *)
C26_RefreshLooksUpAfterInvalidate ==
  \A q \in AnsweredRefreshes :
    /\ calls[requests[q].call].promise > requests[q].mark
    /\ ~requests[q].result.cached

(* cache.invalidate of the request is running *)
Invalidating(q) == requests[q].pc \in {"invFind", "invDelete"}

(* a step in which cache.invalidate of the request returns *)
InvalidateReturns(q) == Invalidating(q) /\ requests'[q].pc = "account"

(* a lookup started after invalidate returned may have called set for the
   pair *)
SetSince(q) ==
  \E l \in DOMAIN lookups :
    /\ l > requests[q].mark
    /\ lookups[l].userId = requests[q].userId
    /\ lookups[l].pc \notin {"cacheGet", "fetch", "setFind", "setWrite"}

(* the steps of invalidate: it removes the records of its pair and no other,
   changes nothing when there is none, and goes on without an error *)
InvalidateRemovesOwnRecord ==
  \A q \in DOMAIN requests :
    /\ InvalidateReturns(q) =>
         /\ store' = store \ RecordsOf(requests[q].userId)
         /\ \A r \in store : r.userId # requests[q].userId => r \in store'
         /\ RecordsOf(requests[q].userId) = {} => store' = store
    /\ (Invalidating(q) /\ requests'[q] # requests[q]) =>
         /\ requests'[q].pc \in {"invDelete", "account"}
         /\ requests'[q].code = ""
         /\ requests'[q].pc = "invDelete" => store' = store

(* after invalidate, get of the pair returns null until set is called *)
NullUntilNextSet ==
  \A q \in DOMAIN requests :
    (/\ requests[q].kind = "refresh"
     /\ ~Invalidating(q)
     /\ ~SetSince(q)) =>
      \A found \in FindOne(requests[q].userId, repoKey) : CacheGet(found) = {}

(* C30: invalidate(u, r) removes the record of (u, r) if there is one and
   otherwise changes nothing and raises no error; it never removes or alters
   the record of another pair, and afterwards get(u, r) returns null until
   the next set for the pair. *)
C30_InvalidateRemovesOnlyItsRecord ==
  [][InvalidateRemovesOwnRecord]_vars /\ []NullUntilNextSet

(* invalidate has just removed the record that an earlier refresh of the
   user wrote, and the record of the other user is still there *)
C30_Witness ==
  \E q \in DOMAIN requests : \E p \in 1..(q - 1) :
    /\ requests[q].kind = "refresh"
    /\ requests[q].pc = "account"
    /\ requests[p].userId = requests[q].userId
    /\ requests[p].code = "OK"
    /\ ~requests[p].result.cached
    /\ \A o \in (p + 1)..(q - 1) : requests[o].userId # requests[q].userId
    /\ RecordsOf(requests[q].userId) = {}
    /\ \E r \in store : r.userId # requests[q].userId

(* the records that the sweeps up to request q have deleted, as counted by
   what cleanupExpired returns and by the loop that is still running *)
RECURSIVE SweptUpTo(_)
SweptUpTo(q) ==
  IF q = 0 THEN 0
  ELSE SweptUpTo(q - 1) +
       (IF requests[q].kind # "sweep" \/ requests[q].pc = "findMany" THEN 0
        ELSE requests[q].count - Cardinality(requests[q].existing))

(* a sweep in its loop has left to delete exactly the records in the store
   that were expired at its query, and the counts returned add up to the
   records that are gone *)
SweepDeletesTheExpired ==
  /\ \A q \in DOMAIN requests :
       (requests[q].kind = "sweep" /\ requests[q].pc = "delete") =>
         /\ requests[q].existing = FindExpired(store, requests[q].setNow)
         /\ requests[q].existing # {}
  /\ SweptUpTo(Len(requests)) = (nextRecordId - 1) - Cardinality(store)

(* the steps of a sweep: the query finds the records with expiresAt before
   its date and returns 0 without any; a delete removes one of them and
   nothing else; when the sweep returns none of them is left *)
SweepSteps ==
  \A q \in DOMAIN requests :
    (requests[q].kind = "sweep" /\ requests'[q] # requests[q]) =>
      LET expired == {r \in store : r.expiresAt < requests[q].setNow}
          kept == {r \in store : r.expiresAt >= requests[q].setNow}
      IN /\ kept \subseteq store'
         /\ store' \subseteq store
         /\ requests[q].pc = "findMany" =>
              /\ store' = store
              /\ requests'[q].count = Cardinality(expired)
              /\ (requests'[q].pc = "done") = (expired = {})
         /\ requests[q].pc = "delete" =>
              /\ Cardinality(store') = Cardinality(store) - 1
              /\ requests'[q].count = requests[q].count
         /\ requests'[q].pc = "done" =>
              /\ store' = kept
              /\ requests'[q].code = "OK"

(* C31: cleanupExpired, run while nothing else writes, deletes exactly the
   records with expiresAt < now of all users, leaves every record with
   expiresAt >= now untouched, and returns the number of records it deleted,
   0 when there are none. *)
C31_SweepDeletesExactlyTheExpired ==
  [][SweepSteps]_vars /\ []SweepDeletesTheExpired

(* a sweep has returned 1 and left in the store a record that expires at the
   very date of its query or later *)
C31_Witness ==
  \E q \in DOMAIN requests :
    /\ requests[q].kind = "sweep"
    /\ requests[q].pc = "done"
    /\ requests[q].count = 1
    /\ \E r \in store : r.expiresAt = now
    /\ nextRecordId = 3

(* the records of the user that have not expired *)
Unexpired(userId) == {r \in RecordsOf(userId) : r.expiresAt >= now}

(* the step in which the first cache.get of a status request returns: with a
   record that has not expired the response follows at once with its
   hasStarred and no call of verifyStarStatus; without one the endpoint goes
   on to the lookup *)
StatusReadsCache ==
  \A q \in DOMAIN requests :
    (requests[q].pc = "statusGet" /\ requests'[q].pc # "statusGet") =>
      IF Unexpired(requests[q].userId) # {}
        THEN /\ requests'[q].pc = "done"
             /\ requests'[q].code = "OK"
             /\ requests'[q].call = 0
             /\ \E r \in Unexpired(requests[q].userId) :
                  requests'[q].hasStarred = r.hasStarred
             /\ lookups' = lookups /\ calls' = calls
        ELSE requests'[q].pc = "account"

(* a status request that has called verifyStarStatus had found no record
   with its cache.get, and every record its lookup met was expired *)
StatusLooksUpOnMiss ==
  \A q \in DOMAIN requests :
    (requests[q].kind = "status" /\ requests[q].call # 0) =>
      /\ requests[q].pc \in {"await", "statusGetAgain"} =>
           requests[q].verification = {}
      /\ calls[requests[q].call].promise > requests[q].mark
      /\ \A r \in lookups[calls[requests[q].call].promise].before :
           r.expiresAt < now

(* C32: GET /star-gate/status issues no call of the remote API when a record
   of the user that has not expired exists and reports the hasStarred of
   that record; it triggers a lookup only when the record is absent or
   expired. *)
C32_StatusServedFromCache ==
  [][StatusReadsCache]_vars /\ []StatusLooksUpOnMiss

(* a status request was answered from a record on the last instant of its
   validity, starred, without a call of verifyStarStatus *)
C32_Witness ==
  \E q \in DOMAIN requests :
    /\ requests[q].kind = "status"
    /\ requests[q].pc = "done"
    /\ requests[q].call = 0
    /\ requests[q].hasStarred
    /\ \E r \in requests[q].verification : r.expiresAt = requests[q].decidedAt

(* a step in which verifyStarStatus is called for the user while no entry of
   the user is in the map *)
CallsWithoutEntry(userId) ==
  /\ Len(calls') = Len(calls) + 1
  /\ calls'[Len(calls')].userId = userId
  /\ \A l \in DOMAIN lookups :
       lookups[l].userId = userId =>
         \A key \in DOMAIN pendingVerifications :
           pendingVerifications[key] # l

(* every call waits for a lookup of its own user and takes its result from
   that lookup *)
CallsKeepToTheirUser ==
  \A c \in DOMAIN calls :
    /\ lookups[calls[c].promise].userId = calls[c].userId
    /\ calls[c].state # Unsettled =>
         calls[c].result = lookups[calls[c].promise].result

(* a call that finds no entry of its own user starts a lookup of its own,
   which begins with the read of the cache, whatever lookups of other users
   are in flight *)
CallsStartTheirOwnLookup ==
  \A userId \in UserIds :
    CallsWithoutEntry(userId) =>
      /\ Len(lookups') = Len(lookups) + 1
      /\ lookups'[Len(lookups')].userId = userId
      /\ lookups'[Len(lookups')].pc = "cacheGet"
      /\ calls'[Len(calls')].creator
      /\ calls'[Len(calls')].promise = Len(lookups')

(* C33: a verifyStarStatus call for one user is never coalesced onto an
   in-flight lookup of another user and never receives its result: calls
   for different users each perform their own read of the cache and, on a
   miss, their own remote lookup. *)
C33_NoCoalescingAcrossUsers ==
  []CallsKeepToTheirUser /\ [][CallsStartTheirOwnLookup]_vars

(* the lookups of two users are pending together, neither call has
   returned yet; each lookup has been answered by the remote API, with
   different results *)
C33_Witness ==
  \E c1, c2 \in DOMAIN calls :
    /\ calls[c1].userId # calls[c2].userId
    /\ c1 < c2
    /\ calls[c1].promise # calls[c2].promise
    /\ lookups[calls[c1].promise].pc = "settled"
    /\ lookups[calls[c2].promise].pc = "settled"
    /\ Len(lookups[calls[c1].promise].history) > 0
    /\ Len(lookups[calls[c2].promise].history) > 0
    /\ lookups[calls[c1].promise].result.hasStarred
    /\ ~lookups[calls[c2].promise].result.hasStarred

(* the lookups of the user that the remote API answered with 204 *)
AnsweredStarred(userId) ==
  {l \in DOMAIN lookups :
     /\ lookups[l].userId = userId
     /\ lookups[l].result = Result(TRUE, FALSE, NoError, FALSE)}

(* C34: a record with hasStarred = true, and hence with accessGrantedAt, is
   only written after the remote API has answered 204 for the user: a
   fallback result under onApiFailure = allow is never persisted, neither by
   the verifier nor by the hook. *)
C34_StarredRecordOnlyAfter204 ==
  \A r \in store :
    (r.hasStarred \/ r.accessGrantedAt # Null) =>
      AnsweredStarred(r.userId) # {}

(* the logins whose hook has run to its end, by returning or by throwing *)
FinishedLogins ==
  {q \in DOMAIN requests :
     requests[q].kind = "login" /\ requests[q].pc = "done"}

(* C35: when the hook fails with GITHUB_ACCOUNT_NOT_FOUND or
   GITHUB_TOKEN_MISSING the new session is deleted as in the other failure
   cases: no session created by a login survives a run of the hook in which
   no star check granted access. *)
C35_NoSessionWithoutGrant ==
  \A q \in FinishedLogins :
    /\ requests[q].code \in {"GITHUB_ACCOUNT_NOT_FOUND",
                             "GITHUB_TOKEN_MISSING"} =>
         requests[q].session = "deleted"
    /\ requests[q].session = "new" => requests[q].accessResult.granted

(* a step in which a sweep deletes a record *)
SweepDeletes(r) ==
  /\ r \in store
  /\ r \notin store'
  /\ \E q \in DOMAIN requests :
       /\ requests[q].kind = "sweep"
       /\ requests[q].pc = "delete"
       /\ requests'[q] # requests[q]

(* every record a sweep deletes has expired by the time of the delete *)
SweepSparesValidRecords ==
  \A r \in store : SweepDeletes(r) => r.expiresAt < now

(* C36: cleanupExpired running while verifications run never deletes a record
   that is valid at the moment of the deletion: a record that the query of
   the sweep found expired but that set has refreshed before the delete is
   not removed. *)
C36_SweepNeverDeletesValidRecord ==
  [][SweepSparesValidRecords]_vars

(* C37: for every input of shouldGrantAccess and every strategy,
   gracePeriodActive = true implies granted = true and hasStarred = false,
   and granted = true with hasStarred = false implies gracePeriodActive =
   true. *)
C37_GraceActiveIffGrantedWithoutStar ==
  access.called =>
    (access.result.gracePeriodActive <=>
       (access.result.granted /\ ~access.verification.hasStarred))

(* granted without the star under the never strategy, with a grace period
   end in the argument that has passed, and with gracePeriodActive *)
C37_Witness ==
  /\ access.called
  /\ options.gracePeriod.strategy = "never"
  /\ ~access.verification.hasStarred
  /\ access.verification.gracePeriodEndsAt # Null
  /\ access.verification.gracePeriodEndsAt < access.at
  /\ access.result.granted
  /\ access.result.gracePeriodActive

(* a record that exists before and after a step keeps the gracePeriodEndsAt it
   has *)
GraceEndKept ==
  \A r \in store : \A w \in store' :
    (w.id = r.id /\ r.gracePeriodEndsAt # Null) =>
      w.gracePeriodEndsAt = r.gracePeriodEndsAt

(* C38: once gracePeriodEndsAt is stored on a record, no later run of the
   hook, verifyStarStatus call or set call changes it as long as the record
   exists: a grace period that runs or has run out is never extended or
   started again on an existing record. *)
C38_GraceEndNeverChanges ==
  [][GraceEndKept]_vars

(* the logins that were given a grace period that starts with them *)
GraceStarts ==
  {q \in DOMAIN requests :
     /\ requests[q].kind = "login"
     /\ requests[q].accessResult.reason = <<"Grace period starting now">>}

(* the requests whose lookup the remote API answered with 204 *)
Answered204 ==
  {q \in DOMAIN requests :
     requests[q].result = Result(TRUE, FALSE, NoError, FALSE)}

(* C39: under the timed strategy "Grace period starting now" is decided at
   most once for a user between two 204 answers: once a grace period has
   been started, a later login of the user who still has not starred is
   never given a new one, whatever cache expiries, sweeps, refreshes or
   failures of the remote API happen in between. *)
C39_GraceStartsOncePerStar ==
  options.gracePeriod.strategy = "timed" =>
    \A p \in GraceStarts : \A q \in GraceStarts :
      p < q => \E m \in Answered204 : p < m /\ m < q

(* the call has been made and has not returned *)
Waiting(c) == c \in DOMAIN calls /\ calls[c].state = Unsettled

(* the call has returned or thrown *)
Settled(c) == c \in DOMAIN calls /\ calls[c].state # Unsettled

(* the retry loop stays within its attempts and its two backoff waits *)
RetriesBounded ==
  \A l \in DOMAIN lookups :
    /\ lookups[l].attempt <= MaxRetries
    /\ Len(lookups[l].history) <= MaxRetries
    /\ lookups[l].slept <= BackoffDelay(0) + BackoffDelay(1)

(* C40: every verifyStarStatus call settles in the end, provided each fetch
   and each persistence operation settles: the retry loop makes at most
   three attempts and a bounded number of backoff waits, and a coalesced
   caller is never left waiting on an entry whose lookup has finished. *)
C40_EveryCallSettles ==
  /\ []RetriesBounded
  /\ \A c \in 1..MaxCalls : Waiting(c) ~> Settled(c)

(* a coalesced call has returned the fallback of a lookup that failed three
   times, after both backoff waits *)
C40_Witness ==
  \E c \in DOMAIN calls :
    /\ ~calls[c].creator
    /\ calls[c].state = Resolved
    /\ calls[c].result.error = <<"Network error">>
    /\ now >= BackoffDelay(0) + BackoffDelay(1)

====
